---------------------------- MODULE Spec2Model ----------------------------
(***************************************************************************)
(* A model of the service-centre ticket system:                            *)
(*   - db_connection.py : the relational backend (one operator per         *)
(*     function, each taking the database value and returning the set of   *)
(*     possible outcomes [db, ret]);                                       *)
(*   - ticket_gui.py    : the handlers of the client, operator and         *)
(*     technician tabs, which call the relational backend;                 *)
(*   - ticket_system.py : the Ticket / Message / Attachment records and    *)
(*     their JSON representation.                                          *)
(*                                                                         *)
(* Text is a sequence of one-character strings, so that strip(), lower(),  *)
(* split() and SQL LIKE are computed and not assumed.  The Cyrillic        *)
(* literals of the source are written in Latin transliteration; upper and  *)
(* lower case are kept.  Python None and SQL NULL are the empty tuple      *)
(* NULL, and a present value v of an optional is <<v>>.                    *)
(***************************************************************************)
EXTENDS Integers, Sequences, FiniteSets, TLC

(***************************************************************************)
(* Bounds of the model.                                                    *)
(***************************************************************************)
\* How many tickets create_request may insert in one behaviour.
MaxRequests == 3
\* How many comments and how many attachments the store may hold.
MaxComments == 2
\* The last value of the database clock (dates and timestamps are 0..MaxClock).
MaxClock == 1

(***************************************************************************)
(* Optional values.                                                        *)
(***************************************************************************)
NULL == << >>

Some(v) == << v >>

IsNull(o) == o = NULL

Val(o) == o[1]

\* COALESCE(a, b) of SQL.
COALESCE(a, b) == IF IsNull(a) THEN b ELSE a

(***************************************************************************)
(* Text.                                                                   *)
(***************************************************************************)
UpperChars == <<"A","B","C","D","E","F","G","H","I","J","K","L","M",
                "N","O","P","Q","R","S","T","U","V","W","X","Y","Z">>

LowerChars == <<"a","b","c","d","e","f","g","h","i","j","k","l","m",
                "n","o","p","q","r","s","t","u","v","w","x","y","z">>

LowerChar(c) ==
    IF \E i \in DOMAIN UpperChars : UpperChars[i] = c
    THEN LowerChars[CHOOSE i \in DOMAIN UpperChars : UpperChars[i] = c]
    ELSE c

\* str.lower() of Python and LOWER() of SQL.
lower(s) == [i \in DOMAIN s |-> LowerChar(s[i])]

IsSpace(c) == c = " "

RECURSIVE lstrip(_)
lstrip(s) == IF s # << >> /\ IsSpace(Head(s)) THEN lstrip(Tail(s)) ELSE s

RECURSIVE rstrip(_)
rstrip(s) ==
    IF s # << >> /\ IsSpace(s[Len(s)]) THEN rstrip(SubSeq(s, 1, Len(s) - 1)) ELSE s

\* str.strip() of Python.
strip(s) == rstrip(lstrip(s))

\* str.split() of Python with no argument: the words between runs of spaces.
RECURSIVE split(_)
split(s) ==
    LET t == lstrip(s) IN
    IF t = << >> THEN << >>
    ELSE LET n == IF \E i \in DOMAIN t : IsSpace(t[i])
                  THEN (CHOOSE i \in DOMAIN t :
                           IsSpace(t[i]) /\ \A j \in 1..(i - 1) : ~IsSpace(t[j])) - 1
                  ELSE Len(t)
         IN <<SubSeq(t, 1, n)>> \o split(SubSeq(t, n + 1, Len(t)))

\* " ".join(parts) of Python.
RECURSIVE join(_)
join(parts) ==
    IF parts = << >> THEN << >>
    ELSE IF Len(parts) = 1 THEN parts[1]
    ELSE parts[1] \o <<" ">> \o join(Tail(parts))

Digits == <<"0","1","2","3","4","5","6","7","8","9">>

\* str(n) of Python and CAST(n AS CHAR) of SQL, for n >= 0.
RECURSIVE str(_)
str(n) == IF n < 10 THEN <<Digits[n + 1]>> ELSE str(n \div 10) \o <<Digits[(n % 10) + 1]>>

\* SQL LIKE: % matches any run of characters, _ matches one character.
RECURSIVE LIKE(_, _)
LIKE(s, p) ==
    IF p = << >> THEN s = << >>
    ELSE IF Head(p) = "%"
         THEN LIKE(s, Tail(p)) \/ (s # << >> /\ LIKE(Tail(s), p))
    ELSE IF s = << >> THEN FALSE
    ELSE (Head(p) = "_" \/ Head(p) = Head(s)) /\ LIKE(Tail(s), Tail(p))

\* sub in s of Python: sub is a contiguous part of s.
Contains(s, sub) ==
    \E i \in 0..(Len(s) - Len(sub)) : SubSeq(s, i + 1, i + Len(sub)) = sub

\* The comparison WHERE column = %s of the queries (exact match).
SqlEq(a, b) == a = b

(***************************************************************************)
(* The literals of the source, transliterated.                             *)
(***************************************************************************)
\* 'Заказчик' (db_connection.py, get_or_create_client)
ZAKAZCHIK == <<"Z","a","k","a","z","c","h","i","k">>
\* 'Новая заявка' (db_connection.py, create_request)
NOVAYA_ZAYAVKA == <<"N","o","v","a","y","a"," ","z","a","y","a","v","k","a">>
\* 'Новая', 'В работе', 'Ожидает запчастей', 'Завершена' (the status selectors)
NOVAYA == <<"N","o","v","a","y","a">>
V_RABOTE == <<"V"," ","r","a","b","o","t","e">>
OZHIDAET_ZAPCHASTEY == <<"O","z","h","i","d","a","e","t"," ","z","a","p","c","h","a","s","t","e","y">>
ZAVERSHENA == <<"Z","a","v","e","r","s","h","e","n","a">>
\* 'Готова к выдаче' (ClientTab.save_client_changes)
GOTOVA_K_VYDACHE == <<"G","o","t","o","v","a"," ","k"," ","v","y","d","a","c","h","e">>
\* 'завершена', 'выполнена', 'готова к выдаче' (MasterTab.save_status)
zavershena == <<"z","a","v","e","r","s","h","e","n","a">>
vypolnena == <<"v","y","p","o","l","n","e","n","a">>
gotova_k_vydache == <<"g","o","t","o","v","a"," ","k"," ","v","y","d","a","c","h","e">>
\* 'Низкий', 'Средний', 'Высокий' (the priority selector, fetch_requests_for_master)
NIZKIY == <<"N","i","z","k","i","y">>
SREDNIY == <<"S","r","e","d","n","i","y">>
VYSOKIY == <<"V","y","s","o","k","i","y">>
\* 'Стандартная' (OperatorTab.save_operator_changes)
STANDARTNAYA == <<"S","t","a","n","d","a","r","t","n","a","y","a">>
\* 'Модель не указана' (ClientTab.create_ticket)
MODEL_NE_UKAZANA == <<"M","o","d","e","l"," ","n","e"," ","u","k","a","z","a","n","a">>
\* 'client_' and 'client' (get_or_create_client)
CLIENT_PREFIX == <<"c","l","i","e","n","t","_">>
CLIENT_PASSWORD == <<"c","l","i","e","n","t">>
DASH == <<"-">>

(***************************************************************************)
(* The relational store.  A database value db is a record of tables, each  *)
(* a sequence of rows in insertion order, with the AUTO_INCREMENT counter  *)
(* of every table (db.auto) and the server clock (db.clock), which gives   *)
(* CURRENT_DATE and the timestamp columns.  The schema (service_center.sql)*)
(* is not part of the sources: its column defaults, AUTO_INCREMENT keys    *)
(* and ON DELETE CASCADE are taken from the specification and from the     *)
(* docstrings of db_connection.py.                                         *)
(***************************************************************************)
Tables == {"roles", "users", "equipment_types", "equipment",
           "request_statuses", "requests", "comments", "attachments"}

\* A key numbered by the count of the rows kept (COUNT(*) + 1): the number of
\* a deleted row is given again.
lastrowid_counting(db, table) == Len(db[table]) + 1

\* cursor.lastrowid after an INSERT into an AUTO_INCREMENT table.
lastrowid(db, table) == db.auto[table]

\* INSERT INTO table: the row is appended and the counter moves on.
InsertRow(db, table, row) ==
    [db EXCEPT ![table] = Append(@, row), !.auto[table] = @ + 1]

\* The rows of a table that satisfy a WHERE condition, in table order.
Where(rows, Cond(_)) == SelectSeq(rows, Cond)

\* cursor.fetchone() on a result without ORDER BY: any of its rows, or NULL.
FetchOne(rows) == IF rows = << >> THEN {NULL} ELSE {Some(rows[i]) : i \in DOMAIN rows}

\* ORDER BY: the rows sorted under Before (a strict weak order on the sort
\* keys); rows with equal keys keep their table order.
OrderBy(rows, Before(_, _)) ==
    LET rank(i) == Cardinality({j \in DOMAIN rows :
                       \/ Before(rows[j], rows[i])
                       \/ ~Before(rows[i], rows[j]) /\ j < i})
    IN [k \in DOMAIN rows |-> rows[CHOOSE i \in DOMAIN rows : rank(i) = k - 1]]

\* Column defaults of the requests table (service_center.sql).
RequestDefaults ==
    [master_id |-> NULL, priority |-> SREDNIY, ticket_type |-> Some(STANDARTNAYA),
     operator_group |-> NULL, responsible_operator |-> NULL, observers_text |-> NULL,
     notify_client |-> 0, requires_parts |-> 0, report |-> NULL]

\* UPDATE requests SET ... WHERE request_id = %s, with Set(row) the new row.
UpdateRequest(db, request_id, Set(_)) ==
    [db EXCEPT !.requests =
        [i \in DOMAIN db.requests |->
            IF db.requests[i].request_id = request_id
            THEN Set(db.requests[i]) ELSE db.requests[i]]]

\* The joins of fetch_client_requests, fetch_all_requests, search_requests and
\* fetch_requests_for_master: a request joined with its client, equipment,
\* equipment type and status (inner joins: the request is dropped when one is
\* missing) and, by LEFT JOIN, with its technician.  Primary keys are unique,
\* so each join matches at most one row.
Joinable(db, r) ==
    /\ \E c \in DOMAIN db.users : db.users[c].user_id = r.client_id
    /\ \E e \in DOMAIN db.equipment :
          /\ db.equipment[e].equipment_id = r.equipment_id
          /\ \E t \in DOMAIN db.equipment_types :
                db.equipment_types[t].type_id = db.equipment[e].type_id
    /\ \E s \in DOMAIN db.request_statuses :
          db.request_statuses[s].status_id = r.status_id

JoinedRow(db, r) ==
    LET c == db.users[CHOOSE i \in DOMAIN db.users : db.users[i].user_id = r.client_id]
        e == db.equipment[CHOOSE i \in DOMAIN db.equipment :
                               db.equipment[i].equipment_id = r.equipment_id]
        et == db.equipment_types[CHOOSE i \in DOMAIN db.equipment_types :
                               db.equipment_types[i].type_id = e.type_id]
        rs == db.request_statuses[CHOOSE i \in DOMAIN db.request_statuses :
                               db.request_statuses[i].status_id = r.status_id]
        ms == Where(db.users, LAMBDA u : ~IsNull(r.master_id) /\ u.user_id = Val(r.master_id))
    IN [request_id |-> r.request_id,
        start_date |-> r.start_date,
        problem_description |-> r.problem_description,
        status |-> rs.status_name,
        priority |-> r.priority,
        ticket_type |-> r.ticket_type,
        operator_group |-> r.operator_group,
        responsible_operator |-> r.responsible_operator,
        observers_text |-> r.observers_text,
        notify_client |-> r.notify_client,
        requires_parts |-> r.requires_parts,
        report |-> r.report,
        client_id |-> c.user_id,
        client_lastname |-> c.lastname,
        client_firstname |-> c.firstname,
        client_surname |-> c.surname,
        client_phone |-> c.phone,
        equipment_id |-> e.equipment_id,
        equipment_type |-> et.type_name,
        equipment_model |-> e.model,
        master_id |-> IF ms = << >> THEN NULL ELSE Some(ms[1].user_id),
        master_lastname |-> IF ms = << >> THEN NULL ELSE Some(ms[1].lastname),
        master_firstname |-> IF ms = << >> THEN NULL ELSE Some(ms[1].firstname)]

JoinedRequests(db) ==
    LET rs == Where(db.requests, LAMBDA r : Joinable(db, r))
    IN [i \in DOMAIN rs |-> JoinedRow(db, rs[i])]

\* ORDER BY r.start_date DESC, r.request_id DESC
NewestFirst(a, b) ==
    \/ a.start_date > b.start_date
    \/ a.start_date = b.start_date /\ a.request_id > b.request_id

(***************************************************************************)
(* db_connection.py.  Every function is an operator from the database      *)
(* value (and the arguments) to the set of its possible outcomes: the      *)
(* database afterwards, the value returned, and whether the driver raised. *)
(***************************************************************************)
Out(db, ret) == [db |-> db, ret |-> ret, raised |-> FALSE]

Raised(db, ret) == [db |-> db, ret |-> ret, raised |-> TRUE]

\* The foreign keys of the schema: a comment or an attachment references an
\* existing request (and a comment an existing user).
RequestExists(db, request_id) ==
    \E i \in DOMAIN db.requests : db.requests[i].request_id = request_id

UserExists(db, user_id) ==
    \E i \in DOMAIN db.users : db.users[i].user_id = user_id

fetch_client_requests(db, phone) ==
    OrderBy(Where(JoinedRequests(db), LAMBDA r : SqlEq(r.client_phone, phone)),
            NewestFirst)

\* ORDER BY c.created_at ASC, c.comment_id ASC
OldestCommentFirst(a, b) ==
    \/ a.created_at < b.created_at
    \/ a.created_at = b.created_at /\ a.comment_id < b.comment_id

\* fetch_request_comments ordering the newest comment first.
fetch_request_comments_newest_first(db, request_id) ==
    LET cs == Where(db.comments, LAMBDA c :
                 /\ c.request_id = request_id
                 /\ \E u \in DOMAIN db.users :
                       /\ db.users[u].user_id = c.user_id
                       /\ \E r \in DOMAIN db.roles :
                             db.roles[r].role_id = db.users[u].role_id)
        row(c) ==
            LET u == db.users[CHOOSE i \in DOMAIN db.users : db.users[i].user_id = c.user_id]
                r == db.roles[CHOOSE i \in DOMAIN db.roles : db.roles[i].role_id = u.role_id]
            IN [comment_id |-> c.comment_id, message |-> c.message,
                created_at |-> c.created_at, firstname |-> u.firstname,
                lastname |-> u.lastname, role_name |-> r.role_name]
    IN OrderBy([i \in DOMAIN cs |-> row(cs[i])], LAMBDA a, b : OldestCommentFirst(b, a))

fetch_request_comments(db, request_id) ==
    LET cs == Where(db.comments, LAMBDA c :
                 /\ c.request_id = request_id
                 /\ \E u \in DOMAIN db.users :
                       /\ db.users[u].user_id = c.user_id
                       /\ \E r \in DOMAIN db.roles :
                             db.roles[r].role_id = db.users[u].role_id)
        row(c) ==
            LET u == db.users[CHOOSE i \in DOMAIN db.users : db.users[i].user_id = c.user_id]
                r == db.roles[CHOOSE i \in DOMAIN db.roles : db.roles[i].role_id = u.role_id]
            IN [comment_id |-> c.comment_id, message |-> c.message,
                created_at |-> c.created_at, firstname |-> u.firstname,
                lastname |-> u.lastname, role_name |-> r.role_name]
    IN OrderBy([i \in DOMAIN cs |-> row(cs[i])], OldestCommentFirst)

add_comment(db, request_id, user_id, message) ==
    IF RequestExists(db, request_id) /\ UserExists(db, user_id)
    THEN {Out(InsertRow(db, "comments",
                 [comment_id |-> lastrowid(db, "comments"), message |-> message,
                  user_id |-> user_id, request_id |-> request_id,
                  created_at |-> db.clock]), NULL)}
    ELSE {Raised(db, NULL)}

add_attachment(db, request_id, user_id, file_path, description) ==
    IF RequestExists(db, request_id) /\ (IsNull(user_id) \/ UserExists(db, Val(user_id)))
    THEN {Out(InsertRow(db, "attachments",
                 [attachment_id |-> lastrowid(db, "attachments"),
                  request_id |-> request_id, user_id |-> user_id,
                  file_path |-> file_path, description |-> description,
                  uploaded_at |-> db.clock]), NULL)}
    ELSE {Raised(db, NULL)}

\* ORDER BY a.uploaded_at ASC, a.attachment_id ASC
OldestAttachmentFirst(a, b) ==
    \/ a.uploaded_at < b.uploaded_at
    \/ a.uploaded_at = b.uploaded_at /\ a.attachment_id < b.attachment_id

fetch_attachments(db, request_id) ==
    LET as == Where(db.attachments, LAMBDA a : a.request_id = request_id)
        row(a) ==
            LET us == Where(db.users, LAMBDA u :
                          ~IsNull(a.user_id) /\ u.user_id = Val(a.user_id))
            IN [attachment_id |-> a.attachment_id, file_path |-> a.file_path,
                description |-> a.description, uploaded_at |-> a.uploaded_at,
                firstname |-> IF us = << >> THEN NULL ELSE Some(us[1].firstname),
                lastname |-> IF us = << >> THEN NULL ELSE Some(us[1].lastname)]
    IN OrderBy([i \in DOMAIN as |-> row(as[i])], OldestAttachmentFirst)

\* report and notify_client are the optional text and the Python bool passed.
update_request_status_and_report(db, request_id, status_id, report, notify_client) ==
    {Out(UpdateRequest(db, request_id, LAMBDA r :
            [r EXCEPT !.status_id = status_id,
                      !.report = COALESCE(report, r.report),
                      !.notify_client = IF notify_client THEN 1 ELSE 0]), NULL)}

set_request_requires_parts(db, request_id, requires_parts) ==
    {Out(UpdateRequest(db, request_id, LAMBDA r :
            [r EXCEPT !.requires_parts = IF requires_parts THEN 1 ELSE 0]), NULL)}

\* <<lastname, firstname, surname>>
_split_full_name(full_name) ==
    LET parts == split(strip(full_name)) IN
    IF parts = << >> THEN <<DASH, DASH, DASH>>
    ELSE IF Len(parts) = 1 THEN <<parts[1], DASH, DASH>>
    ELSE IF Len(parts) = 2 THEN <<parts[1], parts[2], DASH>>
    ELSE <<parts[1], parts[2], join(SubSeq(parts, 3, Len(parts)))>>

\* get_or_create_client that looks the customer up by phone and surname.
get_or_create_client_by_name(db, full_name, phone) ==
    UNION {
        LET db1 == IF IsNull(role) THEN InsertRow(db, "roles",
                        [role_id |-> lastrowid(db, "roles"), role_name |-> ZAKAZCHIK])
                   ELSE db
            role_id == IF IsNull(role) THEN lastrowid(db, "roles") ELSE Val(role).role_id
            name == _split_full_name(full_name)
        IN { IF ~IsNull(user) THEN Out(db, Val(user).user_id)
             ELSE Out(InsertRow(db1, "users",
                        [user_id |-> lastrowid(db1, "users"),
                         lastname |-> name[1], firstname |-> name[2],
                         surname |-> name[3], phone |-> phone,
                         login |-> CLIENT_PREFIX \o phone,
                         password |-> CLIENT_PASSWORD, role_id |-> role_id]),
                      lastrowid(db1, "users"))
             : user \in FetchOne(Where(db1.users, LAMBDA u :
                                   /\ SqlEq(u.phone, phone) /\ u.role_id = role_id
                                   /\ u.lastname = name[1])) }
        : role \in FetchOne(Where(db.roles, LAMBDA r : SqlEq(r.role_name, ZAKAZCHIK))) }

\* When the user is found the function returns without commit, so a role
\* inserted just before is not kept.
get_or_create_client(db, full_name, phone) ==
    UNION {
        LET db1 == IF IsNull(role) THEN InsertRow(db, "roles",
                        [role_id |-> lastrowid(db, "roles"), role_name |-> ZAKAZCHIK])
                   ELSE db
            role_id == IF IsNull(role) THEN lastrowid(db, "roles") ELSE Val(role).role_id
            name == _split_full_name(full_name)
        IN { IF ~IsNull(user) THEN Out(db, Val(user).user_id)
             ELSE Out(InsertRow(db1, "users",
                        [user_id |-> lastrowid(db1, "users"),
                         lastname |-> name[1], firstname |-> name[2],
                         surname |-> name[3], phone |-> phone,
                         login |-> CLIENT_PREFIX \o phone,
                         password |-> CLIENT_PASSWORD, role_id |-> role_id]),
                      lastrowid(db1, "users"))
             : user \in FetchOne(Where(db1.users, LAMBDA u :
                                   SqlEq(u.phone, phone) /\ u.role_id = role_id)) }
        : role \in FetchOne(Where(db.roles, LAMBDA r : SqlEq(r.role_name, ZAKAZCHIK))) }

\* The first half of get_or_create_equipment: the type is looked up and, when
\* absent, inserted in the open transaction.
get_or_create_equipment_type(db, type_name) ==
    { IF ~IsNull(type) THEN Out(db, Val(type).type_id)
      ELSE Out(InsertRow(db, "equipment_types",
                  [type_id |-> lastrowid(db, "equipment_types"),
                   type_name |-> type_name]),
               lastrowid(db, "equipment_types"))
      : type \in FetchOne(Where(db.equipment_types, LAMBDA t :
                               SqlEq(t.type_name, type_name))) }

\* get_or_create_equipment that inserts the equipment without looking it up.
get_or_create_equipment_always_new(db, type_name, model) ==
    { Out(InsertRow(ty.db, "equipment",
             [equipment_id |-> lastrowid(ty.db, "equipment"),
              type_id |-> ty.ret, model |-> model]),
          lastrowid(ty.db, "equipment"))
      : ty \in get_or_create_equipment_type(db, type_name) }

\* Both inserts are committed by the one commit at the end.
get_or_create_equipment(db, type_name, model) ==
    UNION {
        { IF ~IsNull(eq) THEN Out(ty.db, Val(eq).equipment_id)
          ELSE Out(InsertRow(ty.db, "equipment",
                      [equipment_id |-> lastrowid(ty.db, "equipment"),
                       type_id |-> ty.ret, model |-> model]),
                   lastrowid(ty.db, "equipment"))
          : eq \in FetchOne(Where(ty.db.equipment, LAMBDA e :
                              e.type_id = ty.ret /\ SqlEq(e.model, model))) }
        : ty \in get_or_create_equipment_type(db, type_name) }

\* The open transactions in which get_or_create_equipment can be interrupted:
\* after the statements on the type, and after those on the equipment.
get_or_create_equipment_interrupted(db, type_name, model) ==
    {[after |-> "type", db |-> ty.db]
        : ty \in get_or_create_equipment_type(db, type_name)}
    \cup {[after |-> "equipment", db |-> o.db]
        : o \in get_or_create_equipment(db, type_name, model)}

_get_status_id(db, status_name) ==
    { IF ~IsNull(row) THEN Out(db, Val(row).status_id)
      ELSE Out(InsertRow(db, "request_statuses",
                  [status_id |-> lastrowid(db, "request_statuses"),
                   status_name |-> status_name]),
               lastrowid(db, "request_statuses"))
      : row \in FetchOne(Where(db.request_statuses, LAMBDA s :
                            SqlEq(s.status_name, status_name))) }

get_status_id(db, status_name) == _get_status_id(db, status_name)

\* The row INSERTed by create_request; the other columns take their defaults.
NewRequest(db, request_id, client_id, equipment_id, problem_description, status_id) ==
    [request_id |-> request_id, start_date |-> db.clock,
     equipment_id |-> equipment_id, problem_description |-> problem_description,
     status_id |-> status_id, client_id |-> client_id,
     master_id |-> RequestDefaults.master_id,
     priority |-> RequestDefaults.priority,
     ticket_type |-> RequestDefaults.ticket_type,
     operator_group |-> RequestDefaults.operator_group,
     responsible_operator |-> RequestDefaults.responsible_operator,
     observers_text |-> RequestDefaults.observers_text,
     notify_client |-> RequestDefaults.notify_client,
     requires_parts |-> RequestDefaults.requires_parts,
     report |-> RequestDefaults.report]

create_request(db, client_id, equipment_id, problem_description) ==
    { LET db1 == st.db IN
      Out(InsertRow(db1, "requests",
             NewRequest(db1, lastrowid(db1, "requests"), client_id, equipment_id,
                        problem_description, st.ret)),
          lastrowid(db1, "requests"))
      : st \in _get_status_id(db, NOVAYA_ZAYAVKA) }

\* Python truth of an optional text: neither None nor empty.
Truthy(o) == ~IsNull(o) /\ Val(o) # << >>

update_request_client_side(db, request_id, new_problem_description, new_model) ==
    LET db1 == IF Truthy(new_problem_description)
               THEN UpdateRequest(db, request_id, LAMBDA r :
                        [r EXCEPT !.problem_description = Val(new_problem_description)])
               ELSE db
    IN IF ~Truthy(new_model) THEN {Out(db1, NULL)}
       ELSE { IF IsNull(row) THEN Out(db1, NULL)
              ELSE Out([db1 EXCEPT !.equipment =
                          [i \in DOMAIN db1.equipment |->
                              IF db1.equipment[i].equipment_id = Val(row).equipment_id
                              THEN [db1.equipment[i] EXCEPT !.model = Val(new_model)]
                              ELSE db1.equipment[i]]], NULL)
              : row \in FetchOne(Where(db1.requests, LAMBDA r :
                                    r.request_id = request_id)) }

fetch_all_requests(db) == OrderBy(JoinedRequests(db), NewestFirst)

\* The nine predicates of the WHERE clause of search_requests.
SearchMatches(r, pattern) ==
    \/ LIKE(str(r.request_id), pattern)
    \/ LIKE(lower(r.client_lastname \o <<" ">> \o r.client_firstname
                  \o <<" ">> \o r.client_surname), pattern)
    \/ LIKE(lower(r.client_phone), pattern)
    \/ LIKE(lower(r.equipment_type), pattern)
    \/ LIKE(lower(r.equipment_model), pattern)
    \/ LIKE(lower(r.problem_description), pattern)
    \/ LIKE(lower(r.status), pattern)
    \/ LIKE(lower(r.priority), pattern)
    \/ (~IsNull(r.ticket_type) /\ LIKE(lower(Val(r.ticket_type)), pattern))

\* search_requests without the predicate on the status name.
search_requests_without_status(db, text) ==
    LET pattern == <<"%">> \o lower(text) \o <<"%">>
    IN OrderBy(Where(JoinedRequests(db), LAMBDA r :
                   SearchMatches([r EXCEPT !.status = << >>], pattern)),
               NewestFirst)

search_requests(db, text) ==
    LET pattern == <<"%">> \o lower(text) \o <<"%">>
    IN OrderBy(Where(JoinedRequests(db), LAMBDA r : SearchMatches(r, pattern)),
               NewestFirst)

\* The user ids the query with LIMIT 1 may give: NULL (None) or Some(user_id).
_get_user_id_by_master_name(db, name) ==
    LET n == strip(name) IN
    IF n = << >> THEN {NULL}
    ELSE { IF IsNull(row) THEN NULL ELSE Some(Val(row).user_id)
           : row \in FetchOne(Where(db.users, LAMBDA u :
                                 SqlEq(u.lastname, n) \/ SqlEq(u.login, n))) }

get_user_id_by_name_or_login(db, name) == _get_user_id_by_master_name(db, name)

\* update_request_operator_side writing master_id whether or not a master
\* name was passed (the guard 'if master_name is not None' left out).
update_request_operator_side_master_always(db, request_id, operator_group, responsible_operator, observers_text, status_name, priority, ticket_type, master_name) ==
    UNION {
        { LET set(r) ==
                [r EXCEPT
                   !.operator_group =
                       IF ~IsNull(operator_group) THEN operator_group ELSE @,
                   !.responsible_operator =
                       IF ~IsNull(responsible_operator) THEN responsible_operator ELSE @,
                   !.observers_text =
                       IF ~IsNull(observers_text) THEN observers_text ELSE @,
                   !.status_id = IF ~IsNull(st.ret) THEN Val(st.ret) ELSE @,
                   !.priority = IF ~IsNull(priority) THEN Val(priority) ELSE @,
                   !.ticket_type = IF ~IsNull(ticket_type) THEN ticket_type ELSE @,
                   !.master_id = master_id]
          IN Out(UpdateRequest(st.db, request_id, set), NULL)
          : master_id \in IF Truthy(master_name)
                          THEN _get_user_id_by_master_name(st.db, Val(master_name))
                          ELSE {NULL} }
        : st \in IF Truthy(status_name)
                 THEN {Out(o.db, Some(o.ret)) : o \in _get_status_id(db, Val(status_name))}
                 ELSE {Out(db, NULL)} }

\* The arguments are optional texts (None is NULL).
update_request_operator_side(db, request_id, operator_group, responsible_operator, observers_text, status_name, priority, ticket_type, master_name) ==
    UNION {
        { LET db1 == st.db
              status_id == st.ret
              set(r) ==
                [r EXCEPT
                   !.operator_group =
                       IF ~IsNull(operator_group) THEN operator_group ELSE @,
                   !.responsible_operator =
                       IF ~IsNull(responsible_operator) THEN responsible_operator ELSE @,
                   !.observers_text =
                       IF ~IsNull(observers_text) THEN observers_text ELSE @,
                   !.status_id = IF ~IsNull(status_id) THEN Val(status_id) ELSE @,
                   !.priority = IF ~IsNull(priority) THEN Val(priority) ELSE @,
                   !.ticket_type = IF ~IsNull(ticket_type) THEN ticket_type ELSE @,
                   !.master_id = IF ~IsNull(master_name) THEN master_id ELSE @]
          IN Out(UpdateRequest(db1, request_id, set), NULL)
          : master_id \in IF Truthy(master_name)
                          THEN _get_user_id_by_master_name(st.db, Val(master_name))
                          ELSE {NULL} }
        : st \in IF Truthy(status_name)
                 THEN {Out(o.db, Some(o.ret)) : o \in _get_status_id(db, Val(status_name))}
                 ELSE {Out(db, NULL)} }

\* A schema without ON DELETE CASCADE: the dependent rows stay.
OnDeleteCascade_none(db, request_id) == db

\* ON DELETE CASCADE of comments and attachments (service_center.sql).
OnDeleteCascade(db, request_id) ==
    [db EXCEPT !.comments = Where(@, LAMBDA c : c.request_id # request_id),
               !.attachments = Where(@, LAMBDA a : a.request_id # request_id)]

\* delete_request removing every ticket of the client of the ticket
\* (DELETE ... WHERE client_id = the client of request_id).
delete_request_of_client(db, request_id) ==
    LET clients == {db.requests[i].client_id :
                       i \in {j \in DOMAIN db.requests :
                                 db.requests[j].request_id = request_id}}
    IN {Out([db EXCEPT !.requests = Where(@, LAMBDA r : r.client_id \notin clients)],
            NULL)}

delete_request(db, request_id) ==
    {Out(OnDeleteCascade(
            [db EXCEPT !.requests = Where(@, LAMBDA r : r.request_id # request_id)],
            request_id), NULL)}

\* CASE r.priority WHEN 'Высокий' THEN 1 WHEN 'Средний' THEN 2 WHEN 'Низкий' THEN 3 ELSE 4
\* The priority rank with 'Низкий' before 'Средний'.
PriorityRank_low_first(priority) ==
    IF SqlEq(priority, VYSOKIY) THEN 1
    ELSE IF SqlEq(priority, NIZKIY) THEN 2
    ELSE IF SqlEq(priority, SREDNIY) THEN 3
    ELSE 4

PriorityRank(priority) ==
    IF SqlEq(priority, VYSOKIY) THEN 1
    ELSE IF SqlEq(priority, SREDNIY) THEN 2
    ELSE IF SqlEq(priority, NIZKIY) THEN 3
    ELSE 4

\* ORDER BY the priority rank, r.start_date, r.request_id
MasterOrder(a, b) ==
    \/ PriorityRank(a.priority) < PriorityRank(b.priority)
    \/ /\ PriorityRank(a.priority) = PriorityRank(b.priority)
       /\ \/ a.start_date < b.start_date
          \/ a.start_date = b.start_date /\ a.request_id < b.request_id

fetch_requests_for_master(db, master_id) ==
    LET rs == Where(db.requests, LAMBDA r :
                 /\ Joinable(db, r)
                 /\ ~IsNull(r.master_id) /\ Val(r.master_id) = master_id)
        row(r) == LET j == JoinedRow(db, r)
                  IN [c \in DOMAIN j \ {"master_id", "master_lastname", "master_firstname"}
                         |-> j[c]]
    IN OrderBy([i \in DOMAIN rs |-> row(rs[i])], MasterOrder)

(***************************************************************************)
(* ticket_gui.py.  A handler is an operator from the database, the state   *)
(* of its tab and what the user typed or answered to the set of its        *)
(* possible outcomes: the database and the tab afterwards and the message  *)
(* boxes it showed, in order.  The text of a line edit is an argument of   *)
(* the handler that reads it (the user may type anything before the        *)
(* click); the selectors (QComboBox) are state of the tab.  A tab keeps of *)
(* a fetched row the columns its handlers read.                            *)
(***************************************************************************)
Box(kind, text, ids) == [box |-> kind, text |-> text, ids |-> ids]

\* An exception of the driver that leaves the handler: no message box follows.
Fault == Box("exception", "unhandled", << >>)

Done(db, tab, dialog) == [db |-> db, tab |-> tab, dialog |-> dialog]

\* ---- ClientTab ----
ClientRow(r) ==
    [request_id |-> r.request_id, status |-> r.status, client_id |-> r.client_id]

ClientTabInit == [requests |-> << >>, current_request |-> NULL]

\* create_ticket that validates the name and the phone only.
ClientTab_create_ticket_unchecked(db, tab, name_text, phone_text, dtype_text, dmodel_text, problem_text) ==
    LET name == strip(name_text)
        phone == strip(phone_text)
        dtype == strip(dtype_text)
        dmodel == strip(dmodel_text)
        problem == strip(problem_text)
    IN IF name = << >> \/ phone = << >>
       THEN {Done(db, tab, <<Box("warning", "Zapolnite obyazatelnye polya", << >>)>>)}
       ELSE UNION { UNION {
                { Done(rq.db, tab,
                       <<Box("information", "Zayavka sozdana. Nomer zayavki", <<rq.ret>>)>>)
                  : rq \in create_request(eq.db, cl.ret, eq.ret, problem) }
                : eq \in get_or_create_equipment(cl.db, dtype,
                            IF dmodel # << >> THEN dmodel ELSE MODEL_NE_UKAZANA) }
              : cl \in get_or_create_client(db, name, phone) }

ClientTab_create_ticket(db, tab, name_text, phone_text, dtype_text, dmodel_text, problem_text) ==
    LET name == strip(name_text)
        phone == strip(phone_text)
        dtype == strip(dtype_text)
        dmodel == strip(dmodel_text)
        problem == strip(problem_text)
    IN IF name = << >> \/ phone = << >> \/ dtype = << >> \/ problem = << >>
       THEN {Done(db, tab, <<Box("warning", "Zapolnite obyazatelnye polya", << >>)>>)}
       ELSE UNION { UNION {
                { Done(rq.db, tab,
                       <<Box("information", "Zayavka sozdana. Nomer zayavki", <<rq.ret>>)>>)
                  : rq \in create_request(eq.db, cl.ret, eq.ret, problem) }
                : eq \in get_or_create_equipment(cl.db, dtype,
                            IF dmodel # << >> THEN dmodel ELSE MODEL_NE_UKAZANA) }
              : cl \in get_or_create_client(db, name, phone) }

\* The stores that ClientTab.create_ticket leaves when the process dies
\* between two of its three calls.
ClientTab_create_ticket_interrupted(db, name_text, phone_text, dtype_text, dmodel_text) ==
    UNION {
        {[after |-> "client", db |-> cl.db]}
        \cup {[after |-> "equipment", db |-> eq.db]
                : eq \in get_or_create_equipment(cl.db, strip(dtype_text),
                            IF strip(dmodel_text) # << >> THEN strip(dmodel_text)
                            ELSE MODEL_NE_UKAZANA)}
        : cl \in get_or_create_client(db, strip(name_text), strip(phone_text)) }

ClientTab_search_tickets(db, tab, search_phone_text) ==
    LET phone == strip(search_phone_text)
        tickets == fetch_client_requests(db, phone)
    IN IF phone = << >>
       THEN {Done(db, tab, <<Box("warning", "Ukazhite telefon dlya poiska", << >>)>>)}
       ELSE {Done(db,
                  [requests |-> [i \in DOMAIN tickets |-> ClientRow(tickets[i])],
                   current_request |-> NULL],
                  IF tickets = << >>
                  THEN <<Box("information", "Zayavki ne naydeny", << >>)>>
                  ELSE << >>)}

\* The user clicks row `row` of the table (1 is the first row).
ClientTab_on_ticket_selected(db, tab, row) ==
    {Done(db,
          [tab EXCEPT !.current_request =
              IF row \in DOMAIN tab.requests THEN Some(tab.requests[row]) ELSE NULL],
          << >>)}

ClientTab_save_client_changes(db, tab, edit_model_text, edit_problem_text, search_phone_text) ==
    IF IsNull(tab.current_request)
    THEN {Done(db, tab, <<Box("warning", "Vyberite zayavku", << >>)>>)}
    ELSE LET r == Val(tab.current_request)
             new_model == strip(edit_model_text)
             new_problem == strip(edit_problem_text)
         IN IF r.status = GOTOVA_K_VYDACHE
            THEN {Done(db, tab,
                    <<Box("information", "Zavershennuyu zayavku redaktirovat nelzya", << >>)>>)}
            ELSE UNION {
                   { Done(se.db, se.tab,
                          <<Box("information", "Izmeneniya sokhraneny", << >>)>> \o se.dialog)
                     : se \in ClientTab_search_tickets(up.db, tab, search_phone_text) }
                   : up \in update_request_client_side(db, r.request_id,
                               IF new_problem # << >> THEN Some(new_problem) ELSE NULL,
                               IF new_model # << >> THEN Some(new_model) ELSE NULL) }

\* path is the file chosen (empty when the dialog is cancelled), desc_text and
\* ok the answer to the description prompt.
ClientTab_attach_file(db, tab, path, desc_text, ok) ==
    IF IsNull(tab.current_request)
    THEN {Done(db, tab, <<Box("warning", "Vyberite zayavku", << >>)>>)}
    ELSE IF path = << >> THEN {Done(db, tab, << >>)}
    ELSE LET r == Val(tab.current_request)
             desc == IF ~ok \/ strip(desc_text) = << >>
                     THEN <<"Fayl klienta">> ELSE desc_text
         IN UNION {
              IF at.raised THEN {Done(at.db, tab, <<Fault>>)}
              ELSE { IF co.raised THEN Done(co.db, tab, <<Fault>>)
                     ELSE Done(co.db, tab,
                               <<Box("information", "Fayl prikreplen", << >>)>>)
                     : co \in add_comment(at.db, r.request_id, r.client_id,
                                <<"K zayavke prikreplen fayl: ">> \o path) }
              : at \in add_attachment(db, r.request_id, Some(r.client_id), path, desc) }

ClientTab_check_notifications(db, tab, search_phone_text) ==
    LET phone == strip(search_phone_text)
        requests == fetch_client_requests(db, phone)
        completed == Where(requests, LAMBDA r : r.notify_client # 0)
    IN IF phone = << >>
       THEN {Done(db, tab,
                <<Box("warning", "Snachala ukazhite telefon i vypolnite poisk", << >>)>>)}
       ELSE IF completed = << >>
       THEN {Done(db, tab,
                <<Box("information", "Net zavershennykh zayavok", << >>)>>)}
       ELSE {Done(db, tab,
                <<Box("information", "Opovescheniya o vypolnenii",
                      [i \in DOMAIN completed |-> completed[i].request_id])>>)}

\* ---- OperatorTab ----
\* The items of status_edit and of MasterTab.status_combo, and of priority_edit.
StatusItems == <<NOVAYA, V_RABOTE, OZHIDAET_ZAPCHASTEY, ZAVERSHENA>>

PriorityItems == <<NIZKIY, SREDNIY, VYSOKIY>>

\* QComboBox.findText: the index of the item equal to text, 0 when there is none
\* (items are counted from 1 here, so 0 stands for Qt's -1).
findText(items, text) ==
    IF \E i \in DOMAIN items : items[i] = text
    THEN CHOOSE i \in DOMAIN items : items[i] = text /\ \A j \in 1..(i - 1) : items[j] # text
    ELSE 0

OperatorRow(r) ==
    [request_id |-> r.request_id, status |-> r.status, priority |-> r.priority]

OperatorTab_reload_table(db, tab, requests) ==
    [tab EXCEPT !.requests = [i \in DOMAIN requests |-> OperatorRow(requests[i])]]

\* OperatorTab.__init__: the selectors show their first item, the table is loaded.
OperatorTabInit(db) ==
    OperatorTab_reload_table(db,
        [requests |-> << >>, current_request |-> NULL,
         status_edit |-> 1, priority_edit |-> 1],
        fetch_all_requests(db))

OperatorTab_update_details(tab) ==
    IF IsNull(tab.current_request) THEN tab
    ELSE LET r == Val(tab.current_request)
             si == findText(StatusItems, r.status)
             pi == findText(PriorityItems, r.priority)
         IN [tab EXCEPT !.status_edit = IF si >= 1 THEN si ELSE @,
                        !.priority_edit = IF pi >= 1 THEN pi ELSE @]

OperatorTab_on_ticket_selected(db, tab, row) ==
    {Done(db,
          OperatorTab_update_details(
              [tab EXCEPT !.current_request =
                  IF row \in DOMAIN tab.requests THEN Some(tab.requests[row]) ELSE NULL]),
          << >>)}

OperatorTab_save_operator_changes(db, tab, group_text, operator_text, observers_text, type_text, master_text) ==
    IF IsNull(tab.current_request)
    THEN {Done(db, tab, <<Box("warning", "Vyberite zayavku", << >>)>>)}
    ELSE LET r == Val(tab.current_request)
             operator_group == strip(group_text)
             responsible_operator == strip(operator_text)
             observers == strip(observers_text)
             status_name == StatusItems[tab.status_edit]
             priority == PriorityItems[tab.priority_edit]
             ticket_type == IF strip(type_text) # << >> THEN strip(type_text)
                            ELSE STANDARTNAYA
             master_name == IF strip(master_text) # << >> THEN Some(strip(master_text))
                            ELSE NULL
         IN { Done(up.db, OperatorTab_reload_table(up.db, tab, fetch_all_requests(up.db)),
                   <<Box("information", "Izmeneniya po zayavke sokhraneny", << >>)>>)
              : up \in update_request_operator_side(db, r.request_id,
                          IF operator_group # << >> THEN Some(operator_group) ELSE NULL,
                          IF responsible_operator # << >> THEN Some(responsible_operator)
                          ELSE NULL,
                          IF observers # << >> THEN Some(observers) ELSE NULL,
                          Some(status_name), Some(priority), Some(ticket_type),
                          master_name) }

\* A key that leaves the client out: the description alone.
DuplicateKey_by_text(r) == << << >>, lower(strip(r.problem_description)) >>

\* The key of delete_duplicates: (client phone, description stripped and lowered).
DuplicateKey(r) == <<r.client_phone, lower(strip(r.problem_description))>>

\* The loop of delete_duplicates from row i of the fetched list on; seen is the
\* set of <<key, request_id>> pairs, yes[i] the answer given if row i is asked
\* about, dialog the question boxes shown so far.
RECURSIVE DuplicatesLoop(_, _, _, _, _, _)
DuplicatesLoop(db, requests, i, seen, yes, dialog) ==
    IF i > Len(requests) THEN {[db |-> db, dialog |-> dialog]}
    ELSE LET r == requests[i]
             key == DuplicateKey(r)
         IN IF \E e \in seen : e[1] = key
            THEN LET orig_id == (CHOOSE e \in seen : e[1] = key)[2]
                     asked == Append(dialog,
                                Box("question", "Nayden dublikat zayavki",
                                    <<r.request_id, orig_id>>))
                 IN IF yes[i]
                    THEN UNION { DuplicatesLoop(de.db, requests, i + 1, seen, yes, asked)
                                 : de \in delete_request(db, r.request_id) }
                    ELSE DuplicatesLoop(db, requests, i + 1, seen, yes, asked)
            ELSE DuplicatesLoop(db, requests, i + 1,
                                seen \cup {<<key, r.request_id>>}, yes, dialog)

OperatorTab_delete_duplicates(db, tab, yes) ==
    { Done(lp.db, OperatorTab_reload_table(lp.db, tab, fetch_all_requests(lp.db)),
           Append(lp.dialog, Box("information", "Poisk dublikatov zavershen", << >>)))
      : lp \in DuplicatesLoop(db, fetch_all_requests(db), 1, {}, yes, << >>) }

OperatorTab_search_archive(db, tab, search_text) ==
    LET text == lower(strip(search_text))
        found == search_requests(db, text)
    IN IF text = << >>
       THEN {Done(db, tab, <<Box("warning", "Vvedite tekst dlya poiska", << >>)>>)}
       ELSE IF found = << >>
       THEN {Done(db, tab, <<Box("information", "Nichego ne naydeno", << >>)>>)}
       ELSE {Done(db, OperatorTab_reload_table(db, tab, found), << >>)}

\* ---- MasterTab ----
MasterRow(r) ==
    [request_id |-> r.request_id, status |-> r.status, report |-> r.report]

MasterTabInit ==
    [master_name |-> << >>, master_id |-> NULL, requests |-> << >>,
     current_request |-> NULL, status_combo |-> 1]

MasterTab_update_details(tab) ==
    IF IsNull(tab.current_request) THEN tab
    ELSE LET si == findText(StatusItems, Val(tab.current_request).status)
         IN [tab EXCEPT !.status_combo = IF si >= 1 THEN si ELSE @]

MasterTab_reload_table(db, tab) ==
    IF IsNull(tab.master_id) THEN tab
    ELSE LET tickets == fetch_requests_for_master(db, Val(tab.master_id))
         IN [tab EXCEPT !.requests = [i \in DOMAIN tickets |-> MasterRow(tickets[i])],
                        !.current_request = NULL]

\* set_master that keeps the identity of the technician set before when the
\* name is not found.
MasterTab_set_master_keeping(db, tab, master_text) ==
    LET name == strip(master_text)
        named == [tab EXCEPT !.master_name = name]
    IN IF name = << >>
       THEN {Done(db, named, <<Box("warning", "Vvedite imya mastera", << >>)>>)}
       ELSE { IF IsNull(id)
              THEN Done(db, named, <<Box("warning", "Master ne nayden v BD", << >>)>>)
              ELSE Done(db, MasterTab_reload_table(db, [named EXCEPT !.master_id = id]),
                        << >>)
              : id \in get_user_id_by_name_or_login(db, name) }

MasterTab_set_master(db, tab, master_text) ==
    LET name == strip(master_text)
        named == [tab EXCEPT !.master_name = name]
    IN IF name = << >>
       THEN {Done(db, named, <<Box("warning", "Vvedite imya mastera", << >>)>>)}
       ELSE { IF IsNull(id)
              THEN Done(db, [named EXCEPT !.master_id = NULL],
                        <<Box("warning", "Master ne nayden v BD", << >>)>>)
              ELSE Done(db, MasterTab_reload_table(db, [named EXCEPT !.master_id = id]),
                        << >>)
              : id \in get_user_id_by_name_or_login(db, name) }

MasterTab_on_ticket_selected(db, tab, row) ==
    {Done(db,
          MasterTab_update_details(
              [tab EXCEPT !.current_request =
                  IF row \in DOMAIN tab.requests THEN Some(tab.requests[row]) ELSE NULL]),
          << >>)}

\* if self.master_id: add_comment(...), as the handlers of the tab do it.
MasterTab_comment(db, tab, request_id, message) ==
    IF IsNull(tab.master_id) THEN {Out(db, NULL)}
    ELSE add_comment(db, request_id, Val(tab.master_id), message)

MasterTab_send_for_parts(db, tab) ==
    IF IsNull(tab.current_request)
    THEN {Done(db, tab, <<Box("warning", "Vyberite zayavku", << >>)>>)}
    ELSE LET t == Val(tab.current_request) IN
         UNION {
           { IF co.raised THEN Done(co.db, tab, <<Fault>>)
             ELSE Done(co.db, MasterTab_update_details(tab),
                       <<Box("information", "Informatsiya o zakaze zapchastey sokhranena",
                             << >>)>>)
             : co \in MasterTab_comment(rp.db, tab, t.request_id,
                         <<"Otpravlena zayavka na zakaz nedostayuschikh zapchastey.">>) }
           : rp \in set_request_requires_parts(db, t.request_id, TRUE) }

MasterTab_save_status(db, tab) ==
    IF IsNull(tab.current_request)
    THEN {Done(db, tab, <<Box("warning", "Vyberite zayavku", << >>)>>)}
    ELSE LET t == Val(tab.current_request)
             new_status == StatusItems[tab.status_combo]
             notify == lower(new_status) \in {zavershena, vypolnena, gotova_k_vydache}
         IN UNION { UNION {
              { IF co.raised THEN Done(co.db, tab, <<Fault>>)
                ELSE Done(co.db, MasterTab_reload_table(co.db, tab),
                          <<Box("information", "Status zayavki obnovlen", << >>)>>)
                : co \in MasterTab_comment(up.db, tab, t.request_id,
                            <<"Status izmenen na '">> \o new_status \o <<"'.">>) }
              : up \in update_request_status_and_report(st.db, t.request_id, st.ret,
                          NULL, notify) }
            : st \in get_status_id(db, new_status) }

MasterTab_save_report(db, tab, report_text) ==
    IF IsNull(tab.current_request)
    THEN {Done(db, tab, <<Box("warning", "Vyberite zayavku", << >>)>>)}
    ELSE LET t == Val(tab.current_request)
             report == strip(report_text)
         IN IF report = << >>
            THEN {Done(db, tab, <<Box("warning", "Otchet ne mozhet byt pustym", << >>)>>)}
            ELSE UNION { UNION {
                   { IF co.raised THEN Done(co.db, tab, <<Fault>>)
                     ELSE Done(co.db, MasterTab_update_details(tab),
                               <<Box("information", "Otchet sokhranen", << >>)>>)
                     : co \in MasterTab_comment(up.db, tab, t.request_id,
                                 <<"Dobavlen otchet o vypolnennoy rabote: ">> \o report) }
                   : up \in update_request_status_and_report(st.db, t.request_id, st.ret,
                               Some(report), TRUE) }
                 : st \in get_status_id(db, t.status) }

MasterTab_attach_file(db, tab, path) ==
    IF IsNull(tab.current_request)
    THEN {Done(db, tab, <<Box("warning", "Vyberite zayavku", << >>)>>)}
    ELSE IF path = << >> THEN {Done(db, tab, << >>)}
    ELSE LET t == Val(tab.current_request)
             shown == Done(db, MasterTab_update_details(tab),
                           <<Box("information", "Fayl prikreplen", << >>)>>)
         IN IF IsNull(tab.master_id) THEN {shown}
            ELSE UNION {
                   IF at.raised THEN {Done(at.db, tab, <<Fault>>)}
                   ELSE { IF co.raised THEN Done(co.db, tab, <<Fault>>)
                          ELSE [shown EXCEPT !.db = co.db]
                          : co \in add_comment(at.db, t.request_id, Val(tab.master_id),
                                      <<"K zayavke prikrepleno foto: ">> \o path) }
                   : at \in add_attachment(db, t.request_id, tab.master_id, path,
                               <<"Foto s mesta remonta">>) }


(***************************************************************************)
(* ticket_system.py.  A dict is a function from its keys, so a key may be  *)
(* absent; a value that may be None (JSON null) is NULL or Some(value).    *)
(* Objects are records of their attributes.  now is what                   *)
(* datetime.now().strftime(...) gives when the operation runs.             *)
(***************************************************************************)
\* dict.get(key, default)
Get(dict, key, default) == IF key \in DOMAIN dict THEN dict[key] ELSE default

\* Python's 'value or default' for a value that may be None or empty.
Or(value, default) == IF Truthy(value) THEN Val(value) ELSE default

\* Message.__init__
Message(author_role, author_name, text, created_at, now) ==
    [author_role |-> author_role, author_name |-> author_name, text |-> text,
     created_at |-> Or(created_at, now)]

Message_to_dict(m) ==
    [author_role |-> m.author_role, author_name |-> m.author_name, text |-> m.text,
     created_at |-> Some(m.created_at)]

MessageKeys == {"author_role", "author_name", "text", "created_at"}

\* Message.from_dict; it raises KeyError unless the four keys are there.
Message_from_dict(dict, now) ==
    Message(dict.author_role, dict.author_name, dict.text, dict.created_at, now)

\* Attachment.__init__
Attachment(filename, description) == [filename |-> filename, description |-> description]

Attachment_to_dict(a) == [filename |-> a.filename, description |-> a.description]

\* Attachment.from_dict that does not read the description.
Attachment_from_dict_without_description(dict) == Attachment(dict.filename, << >>)

\* Attachment.from_dict; it raises KeyError without "filename".
Attachment_from_dict(dict) ==
    Attachment(dict.filename, Get(dict, "description", << >>))

RequiredKeys == {"ticket_id", "device_type", "device_model", "problem_description",
                 "client_name", "client_phone"}

\* Ticket.__init__ with the keyword arguments kw (the six positional ones and
\* any of the others; observers, history, attachments, created_at and
\* updated_at may be None).
Ticket(kw, now) ==
    LET created_at == Or(Get(kw, "created_at", NULL), now) IN
    [ticket_id |-> kw.ticket_id,
     device_type |-> kw.device_type,
     device_model |-> kw.device_model,
     problem_description |-> kw.problem_description,
     client_name |-> kw.client_name,
     client_phone |-> kw.client_phone,
     status |-> Get(kw, "status", NOVAYA),
     priority |-> Get(kw, "priority", SREDNIY),
     ticket_type |-> Get(kw, "ticket_type", STANDARTNAYA),
     operator_group |-> Get(kw, "operator_group", << >>),
     responsible_operator |-> Get(kw, "responsible_operator", << >>),
     observers |-> Or(Get(kw, "observers", NULL), << >>),
     assigned_master |-> Get(kw, "assigned_master", << >>),
     history |-> Or(Get(kw, "history", NULL), << >>),
     attachments |-> Or(Get(kw, "attachments", NULL), << >>),
     requires_parts |-> Get(kw, "requires_parts", FALSE),
     created_at |-> created_at,
     updated_at |-> Or(Get(kw, "updated_at", NULL), created_at),
     report |-> Get(kw, "report", << >>),
     notify_client |-> Get(kw, "notify_client", FALSE)]

\* Ticket.to_dict that writes an empty history.
Ticket_to_dict_without_history(t) ==
    [t EXCEPT !.history = << >>,
              !.observers = Some(@),
              !.attachments = [i \in DOMAIN @ |-> Attachment_to_dict(@[i])],
              !.created_at = Some(@),
              !.updated_at = Some(@)]

Ticket_to_dict(t) ==
    [ticket_id |-> t.ticket_id,
     device_type |-> t.device_type,
     device_model |-> t.device_model,
     problem_description |-> t.problem_description,
     client_name |-> t.client_name,
     client_phone |-> t.client_phone,
     status |-> t.status,
     priority |-> t.priority,
     ticket_type |-> t.ticket_type,
     operator_group |-> t.operator_group,
     responsible_operator |-> t.responsible_operator,
     observers |-> Some(t.observers),
     assigned_master |-> t.assigned_master,
     history |-> [i \in DOMAIN t.history |-> Message_to_dict(t.history[i])],
     attachments |-> [i \in DOMAIN t.attachments |-> Attachment_to_dict(t.attachments[i])],
     requires_parts |-> t.requires_parts,
     created_at |-> Some(t.created_at),
     updated_at |-> Some(t.updated_at),
     report |-> t.report,
     notify_client |-> t.notify_client]

\* Whether Ticket.from_dict raises KeyError on dict.
Ticket_from_dict_raises(dict) ==
    \/ ~(RequiredKeys \subseteq DOMAIN dict)
    \/ \E i \in DOMAIN Get(dict, "history", << >>) :
          ~(MessageKeys \subseteq DOMAIN dict.history[i])
    \/ \E i \in DOMAIN Get(dict, "attachments", << >>) :
          "filename" \notin DOMAIN dict.attachments[i]

\* The keyword arguments Ticket.from_dict passes to Ticket.
Ticket_from_dict_kwargs(dict, now) ==
    LET history == Get(dict, "history", << >>)
        attachments == Get(dict, "attachments", << >>)
    IN [ticket_id |-> dict.ticket_id,
        device_type |-> dict.device_type,
        device_model |-> dict.device_model,
        problem_description |-> dict.problem_description,
        client_name |-> dict.client_name,
        client_phone |-> dict.client_phone,
        status |-> Get(dict, "status", NOVAYA),
        priority |-> Get(dict, "priority", SREDNIY),
        ticket_type |-> Get(dict, "ticket_type", STANDARTNAYA),
        operator_group |-> Get(dict, "operator_group", << >>),
        responsible_operator |-> Get(dict, "responsible_operator", << >>),
        observers |-> Get(dict, "observers", Some(<< >>)),
        assigned_master |-> Get(dict, "assigned_master", << >>),
        history |-> Some([i \in DOMAIN history |-> Message_from_dict(history[i], now)]),
        attachments |-> Some([i \in DOMAIN attachments |->
                                 Attachment_from_dict(attachments[i])]),
        requires_parts |-> Get(dict, "requires_parts", FALSE),
        created_at |-> Get(dict, "created_at", NULL),
        updated_at |-> Get(dict, "updated_at", NULL),
        report |-> Get(dict, "report", << >>),
        notify_client |-> Get(dict, "notify_client", FALSE)]

\* Ticket.from_dict that does not pass the report on.
Ticket_from_dict_without_report(dict, now) ==
    LET kw == Ticket_from_dict_kwargs(dict, now)
    IN Ticket([k \in DOMAIN kw \ {"report"} |-> kw[k]], now)

Ticket_from_dict(dict, now) == Ticket(Ticket_from_dict_kwargs(dict, now), now)

Ticket_add_message(t, message, now) ==
    [t EXCEPT !.history = Append(@, message), !.updated_at = now]

Ticket_add_attachment(t, attachment, now) ==
    [t EXCEPT !.attachments = Append(@, attachment), !.updated_at = now]

\* load_data: the JSON value of the file, or an empty collection when there
\* is no file.  The file is kept as the JSON value that json.dump wrote: a
\* dict of texts, integers, booleans, null and lists of them, which
\* json.load gives back as it was.
load_data(f) ==
    IF IsNull(f) THEN [tickets |-> << >>, next_id |-> 1] ELSE Val(f)

\* save_data: open(DATA_FILE, "w") and json.dump; the new content of the file.
save_data(data) == Some(data)

\* TicketSystem.__init__ (it raises KeyError when Ticket.from_dict does).
TicketSystem_init_raises(f) ==
    \E i \in DOMAIN Get(load_data(f), "tickets", << >>) :
        Ticket_from_dict_raises(load_data(f).tickets[i])

TicketSystem_init(f, now) ==
    LET data == load_data(f)
        docs == Get(data, "tickets", << >>)
    IN [data |-> data,
        tickets |-> [i \in DOMAIN docs |-> Ticket_from_dict(docs[i], now)],
        next_id |-> Get(data, "next_id", 1)]

\* TicketSystem._save that writes the tickets but not next_id.
TicketSystem_save_tickets_only(self) ==
    LET data == [k \in DOMAIN self.data \cup {"tickets"} |->
                    IF k = "tickets"
                    THEN [i \in DOMAIN self.tickets |-> Ticket_to_dict(self.tickets[i])]
                    ELSE self.data[k]]
    IN [self |-> [self EXCEPT !.data = data], file |-> save_data(data)]

\* TicketSystem._save: the object afterwards and the content of the file.
TicketSystem_save(self) ==
    LET data == [k \in DOMAIN self.data \cup {"tickets", "next_id"} |->
                    IF k = "tickets"
                    THEN [i \in DOMAIN self.tickets |-> Ticket_to_dict(self.tickets[i])]
                    ELSE IF k = "next_id" THEN self.next_id
                    ELSE self.data[k]]
    IN [self |-> [self EXCEPT !.data = data], file |-> save_data(data)]

(***************************************************************************)
(* The application: MainWindow with its three tabs over one database, and  *)
(* the objects of ticket_system.py.                                        *)
(***************************************************************************)
VARIABLES
    db,        \* the relational store
    client,    \* ClientTab: requests, current_request
    operator,  \* OperatorTab: requests, current_request, status_edit, priority_edit
    master,    \* MasterTab: master_name, master_id, requests, current_request, status_combo
    dialog,    \* the message boxes shown by the last handler, in order
    issued,    \* the identifiers create_request has returned so far
    result,    \* the last call of db_connection.py made directly, with what it returned
    calls,     \* how many calls were made directly (of db_connection.py or of a Ticket)
    data,      \* a JSON ticket object (a dict), as read from the file
    ticket,    \* the Ticket that Ticket.from_dict made of data
    dumped,    \* the dict that to_dict made of ticket
    loaded,    \* the Ticket that Ticket.from_dict made of dumped
    backend,   \* the store the process works on: "relational" or "json"
    file,      \* the content of tickets_data.json (NULL while there is no file)
    systems    \* the TicketSystem object of each process (NULL before it is built)

vars == <<db, client, operator, master, dialog, issued, result, calls,
          data, ticket, dumped, loaded, backend, file, systems>>

tabs == <<client, operator, master, dialog>>

objects == <<data, ticket, dumped, loaded, backend, file, systems>>

\* How many processes work on tickets_data.json.
MaxProcesses == 2

Processes == 1..MaxProcesses

\* No tickets_data.json and no TicketSystem.
NoSystems == file = NULL /\ systems = [p \in Processes |-> NULL]

\* 'Мастер': the role of the technician seeded in the store.
MASTER_ROLE == <<"M","a","s","t","e","r">>
PETROV == <<"P","e","t">>

\* The store before the first ticket: the tables are empty but for one
\* technician (no function of db_connection.py creates a technician).
InitDb ==
    [roles |-> <<[role_id |-> 1, role_name |-> MASTER_ROLE]>>,
     users |-> <<[user_id |-> 1, lastname |-> PETROV, firstname |-> <<"P">>,
                  surname |-> DASH, phone |-> <<"9">>, login |-> <<"m","1">>,
                  password |-> <<"m">>, role_id |-> 1]>>,
     equipment_types |-> << >>,
     equipment |-> << >>,
     request_statuses |-> << >>,
     requests |-> << >>,
     comments |-> << >>,
     attachments |-> << >>,
     auto |-> [t \in Tables |-> IF t \in {"roles", "users"} THEN 2 ELSE 1],
     clock |-> 0]

\* What the user types, picks and answers.
Names == {<<"I","v"," ","A","n">>}
Phones == {<<"1">>, <<"2">>}
DeviceTypes == {<<"p","c">>}
DeviceModels == {<< >>}
Problems == {<<"d">>, <<"D"," ">>}
EditModels == {<< >>, <<"m">>}
EditProblems == {<< >>, <<"D">>}
MasterNames == {<< >>, PETROV, <<"X">>}
OperatorStatusPicks == {2}
OperatorPriorityPicks == {3}
MasterStatusPicks == {4}
SearchTexts == {<<"N","O","V">>, <<"r","a","b">>}
Reports == {<< >>, <<"r">>}
Paths == {<< >>, <<"f">>}

\* MainWindow.__init__ over the store d.
Opened(d) ==
    /\ db = d
    /\ client = ClientTabInit
    /\ operator = OperatorTabInit(d)
    /\ master = MasterTabInit
    /\ dialog = << >>
    /\ issued = {d.requests[i].request_id : i \in DOMAIN d.requests}
    /\ result = NULL
    /\ calls = 0

\* The program as shipped works on the relational store and builds no Ticket.
Started(d) ==
    /\ Opened(d)
    /\ data = NULL /\ ticket = NULL /\ dumped = NULL /\ loaded = NULL
    /\ backend = "relational"
    /\ NoSystems

Init == Started(InitDb)

\* MainWindow.__init__ on the store as it is: the program is started again.
Launch ==
    /\ db' = db
    /\ client' = ClientTabInit
    /\ operator' = OperatorTabInit(db)
    /\ master' = MasterTabInit
    /\ dialog' = << >>
    /\ UNCHANGED <<issued, result, calls, objects>>

\* The clock of the database server moves on.
Tick ==
    /\ db.clock < MaxClock
    /\ db' = [db EXCEPT !.clock = @ + 1]
    /\ UNCHANGED <<tabs, issued, result, calls, objects>>

\* The identifiers that the boxes of create_ticket announce.
Announced(boxes) ==
    {boxes[i].ids[1] : i \in {j \in DOMAIN boxes :
                                 boxes[j].text = "Zayavka sozdana. Nomer zayavki"}}

ClientDoes(outcomes) ==
    /\ \E o \in outcomes :
          /\ db' = o.db /\ client' = o.tab /\ dialog' = o.dialog
          /\ issued' = issued \cup Announced(o.dialog)
    /\ UNCHANGED <<operator, master, result, calls, objects>>

OperatorDoes(outcomes) ==
    /\ \E o \in outcomes : db' = o.db /\ operator' = o.tab /\ dialog' = o.dialog
    /\ UNCHANGED <<client, master, issued, result, calls, objects>>

MasterDoes(outcomes) ==
    /\ \E o \in outcomes : db' = o.db /\ master' = o.tab /\ dialog' = o.dialog
    /\ UNCHANGED <<client, operator, issued, result, calls, objects>>

RoomForRequest == lastrowid(db, "requests") <= MaxRequests
RoomForComment == Len(db.comments) < MaxComments
RoomForAttachment == Len(db.attachments) < MaxComments

ClientCreateTicket ==
    /\ RoomForRequest
    /\ \E name \in Names, phone \in Phones, dtype \in DeviceTypes,
          dmodel \in DeviceModels, problem \in Problems :
          ClientDoes(ClientTab_create_ticket(db, client, name, phone, dtype, dmodel,
                                             problem))

ClientSearchTickets ==
    \E phone \in Phones : ClientDoes(ClientTab_search_tickets(db, client, phone))

ClientSelect ==
    \E row \in DOMAIN client.requests :
        ClientDoes(ClientTab_on_ticket_selected(db, client, row))

ClientSaveChanges ==
    \E m \in EditModels, p \in EditProblems, phone \in Phones :
        ClientDoes(ClientTab_save_client_changes(db, client, m, p, phone))

ClientAttachFile ==
    /\ RoomForComment /\ RoomForAttachment
    /\ \E path \in Paths :
          ClientDoes(ClientTab_attach_file(db, client, path, << >>, FALSE))

ClientCheckNotifications ==
    \E phone \in Phones : ClientDoes(ClientTab_check_notifications(db, client, phone))

OperatorSelect ==
    \E row \in DOMAIN operator.requests :
        OperatorDoes(OperatorTab_on_ticket_selected(db, operator, row))

\* The user picks an item of status_edit or of priority_edit.
OperatorPickStatus ==
    /\ \E i \in OperatorStatusPicks : operator' = [operator EXCEPT !.status_edit = i]
    /\ UNCHANGED <<db, client, master, dialog, issued, result, calls, objects>>

OperatorPickPriority ==
    /\ \E i \in OperatorPriorityPicks : operator' = [operator EXCEPT !.priority_edit = i]
    /\ UNCHANGED <<db, client, master, dialog, issued, result, calls, objects>>

OperatorSaveChanges ==
    \E name \in MasterNames :
        OperatorDoes(OperatorTab_save_operator_changes(db, operator, << >>, << >>, << >>,
                                                       << >>, name))

OperatorDeleteDuplicates ==
    \E yes \in [1..Len(db.requests) -> BOOLEAN] :
        OperatorDoes(OperatorTab_delete_duplicates(db, operator, yes))

OperatorSearchArchive ==
    \E text \in SearchTexts : OperatorDoes(OperatorTab_search_archive(db, operator, text))

MasterSetMaster ==
    \E name \in MasterNames : MasterDoes(MasterTab_set_master(db, master, name))

MasterSelect ==
    \E row \in DOMAIN master.requests :
        MasterDoes(MasterTab_on_ticket_selected(db, master, row))

\* The user picks an item of status_combo.
MasterPickStatus ==
    /\ \E i \in MasterStatusPicks : master' = [master EXCEPT !.status_combo = i]
    /\ UNCHANGED <<db, client, operator, dialog, issued, result, calls, objects>>

MasterSendForParts ==
    /\ RoomForComment
    /\ MasterDoes(MasterTab_send_for_parts(db, master))

MasterSaveStatus ==
    /\ RoomForComment
    /\ MasterDoes(MasterTab_save_status(db, master))

MasterSaveReport ==
    /\ RoomForComment
    /\ \E report \in Reports : MasterDoes(MasterTab_save_report(db, master, report))

MasterAttachFile ==
    /\ RoomForComment /\ RoomForAttachment
    /\ \E path \in Paths : MasterDoes(MasterTab_attach_file(db, master, path))

(***************************************************************************)
(* The front desk: clients file tickets and the operator cleans up the     *)
(* duplicates (the only caller of delete_request).                         *)
(***************************************************************************)
Next ==
    \/ Launch
    \/ Tick
    \/ ClientCreateTicket
    \/ OperatorDeleteDuplicates

Spec == Init /\ [][Next]_vars


(***************************************************************************)
(* Claims about the front desk.                                            *)
(***************************************************************************)
\* The tickets as fetch_all_requests shows them, as a set.
Shown(d) == LET all == fetch_all_requests(d) IN {all[i] : i \in DOMAIN all}

\* C1: whenever ClientTab.create_ticket creates a ticket, after any creations
\* and deletions, the identifier it announces was never returned before
\* (also not for a ticket deleted since), exactly one ticket carries it, and
\* that ticket has the status 'Новая заявка'.
C1_CreateIssuesFreshIdNewStatus ==
    [][ClientCreateTicket =>
         \A n \in Announced(dialog') :
            /\ n \notin issued
            /\ Cardinality({i \in DOMAIN db'.requests :
                               db'.requests[i].request_id = n}) = 1
            /\ \E t \in Shown(db') : t.request_id = n /\ t.status = NOVAYA_ZAYAVKA]_vars

\* A ticket was created after an earlier ticket had been deleted.
C1_CreatedAfterDelete ==
    /\ Announced(dialog) # {}
    /\ \E n \in issued : ~RequestExists(db, n)
    /\ \A n \in Announced(dialog) : RequestExists(db, n)

\* The question boxes of delete_duplicates: <<flagged, original>> pairs.
Flagged(boxes) ==
    {boxes[i].ids : i \in {j \in DOMAIN boxes : boxes[j].box = "question"}}

\* A was created before B with the same phone and a description equal up to
\* letter case and surrounding whitespace; C has another phone and the
\* description of A.
DuplicateTriple(a, b, c) ==
    /\ a.request_id < b.request_id /\ a.start_date <= b.start_date
    /\ a.client_phone = b.client_phone
    /\ lower(strip(a.problem_description)) = lower(strip(b.problem_description))
    /\ c.client_phone # a.client_phone
    /\ c.problem_description = a.problem_description

\* C4: one run of OperatorTab.delete_duplicates over tickets A, B, C as above
\* flags B as a duplicate with A as the original and flags neither A nor C.
C4_LaterTicketIsFlaggedAsDuplicate ==
    [][OperatorDeleteDuplicates =>
         \A a, b, c \in Shown(db) :
            DuplicateTriple(a, b, c) =>
               /\ <<b.request_id, a.request_id>> \in Flagged(dialog')
               /\ \A f \in Flagged(dialog') :
                     f[1] # a.request_id /\ f[1] # c.request_id]_vars


(***************************************************************************)
(* The operator's desk: the program is started on a store that holds the   *)
(* tickets filed so far, and the operator works on them.                   *)
(***************************************************************************)
\* How many tickets were filed before the operator starts.
MaxFiled == 2

\* The stores after n tickets were filed through ClientTab.create_ticket.
RECURSIVE Filed(_)
Filed(n) ==
    IF n = 0 THEN {InitDb}
    ELSE UNION { { o.db : o \in ClientTab_create_ticket(d, ClientTabInit, name, phone,
                                                         dtype, dmodel, problem) }
                 : d \in Filed(n - 1), name \in Names, phone \in Phones,
                   dtype \in DeviceTypes, dmodel \in DeviceModels, problem \in Problems }

InitOperator == \E n \in 1..MaxFiled : \E d \in Filed(n) : Started(d)

NextOperator ==
    \/ Launch
    \/ OperatorSelect
    \/ OperatorPickStatus
    \/ OperatorSaveChanges
    \/ OperatorSearchArchive

SpecOperator == InitOperator /\ [][NextOperator]_vars


(***************************************************************************)
(* Claims about the operator's desk.                                       *)
(***************************************************************************)
\* The technician reference of a ticket, as stored.
MasterIdOf(d, request_id) ==
    {d.requests[i].master_id : i \in {j \in DOMAIN d.requests :
                                         d.requests[j].request_id = request_id}}

\* No user has the surname or the login n.
UnknownMaster(d, n) ==
    \A i \in DOMAIN d.users : d.users[i].lastname # n /\ d.users[i].login # n

\* C5: when save_operator_changes passes update_request_operator_side a
\* non-empty master name that matches no user's surname or login, the
\* ticket's master_id is left as it was and a not-found condition is reported
\* (a box other than the success information).
C5_UnknownMasterLeavesTechnician ==
    [][\A name \in MasterNames :
          ( /\ ~IsNull(operator.current_request)
            /\ strip(name) # << >>
            /\ UnknownMaster(db, strip(name))
            /\ OperatorDoes(OperatorTab_save_operator_changes(db, operator, << >>, << >>,
                                                              << >>, << >>, name)) )
          => /\ MasterIdOf(db', Val(operator.current_request).request_id)
                  = MasterIdOf(db, Val(operator.current_request).request_id)
             /\ \E i \in DOMAIN dialog' : dialog'[i].box # "information"]_vars

\* The searched fields of a shown ticket other than its status name.
OtherSearchedFields(r) ==
    {str(r.request_id),
     r.client_lastname \o <<" ">> \o r.client_firstname \o <<" ">> \o r.client_surname,
     r.client_phone, r.equipment_type, r.equipment_model, r.problem_description,
     r.priority} \cup (IF IsNull(r.ticket_type) THEN {} ELSE {Val(r.ticket_type)})

\* t occurs (ignoring case) in a status name and in no other searched field.
MatchesStatusOnly(d, t) ==
    /\ \E i \in DOMAIN d.request_statuses :
          Contains(lower(d.request_statuses[i].status_name), t)
    /\ \A r \in Shown(d) : \A f \in OtherSearchedFields(r) : ~Contains(lower(f), t)

\* C8: an archive search with a text that occurs in a status name only shows
\* exactly the tickets whose status name contains the text (none when it
\* reports that nothing was found).
C8_StatusSearchReturnsThatStatus ==
    [][\A text \in SearchTexts :
          ( /\ db' = db /\ operator'.current_request = operator.current_request
            /\ OperatorDoes(OperatorTab_search_archive(db, operator, text))
            /\ MatchesStatusOnly(db, lower(strip(text))) )
          => LET wanted == {r.request_id : r \in {x \in Shown(db) :
                                Contains(lower(x.status), lower(strip(text)))}}
                 found == IF dialog' = << >>
                          THEN {operator'.requests[i].request_id :
                                   i \in DOMAIN operator'.requests}
                          ELSE {}
             IN found = wanted]_vars

\* The search left in the table some of the tickets, all of one status, while
\* the store holds a ticket of another status.
C8_SearchNarrowedTheTable ==
    /\ dialog = << >>
    /\ operator.requests # << >>
    /\ Len(operator.requests) < Len(db.requests)
    /\ \A i \in DOMAIN operator.requests :
          Contains(lower(operator.requests[i].status), <<"r","a","b">>)
    /\ \E r \in Shown(db) : ~Contains(lower(r.status), <<"r","a","b">>)


(***************************************************************************)
(* db_connection.py called directly.  result keeps the last call: its      *)
(* name, its arguments and what it returned.                               *)
(***************************************************************************)
Called(name, args, o) ==
    Some([call |-> name, args |-> args, ret |-> o.ret, raised |-> o.raised])

RequestIds(d) == {d.requests[i].request_id : i \in DOMAIN d.requests}

UserIds(d) == {d.users[i].user_id : i \in DOMAIN d.users}

\* An identifier that no request, and one that no user, carries yet.
NoSuchRequest(d) == d.auto.requests

NoSuchUser(d) == d.auto.users

\* What callers pass update_request_operator_side for each argument.
GroupArgs == {NULL, Some(<<"g">>)}
OperatorArgs == {NULL, Some(<<"o">>)}
ObserversArgs == {NULL, Some(<<"w">>)}
StatusArgs == {NULL, Some(V_RABOTE)}
PriorityArgs == {NULL, Some(VYSOKIY)}
TypeArgs == {NULL, Some(<<"t">>)}
MasterArgs == {NULL, Some(PETROV)}

\* The stores in which each ticket of ids was either left as filed or updated
\* by the operator with every argument supplied.
RECURSIVE Handled(_, _)
Handled(stores, ids) ==
    IF ids = {} THEN stores
    ELSE LET id == CHOOSE i \in ids : TRUE
         IN Handled(stores \cup
                    UNION { { o.db : o \in update_request_operator_side(
                                        d, id, Some(<<"G">>), Some(<<"O">>), Some(<<"W">>),
                                        Some(ZAVERSHENA), Some(NIZKIY), Some(<<"T">>),
                                        Some(PETROV)) }
                            : d \in stores },
                    ids \ {id})

InitOperatorSide == \E d \in Handled(Filed(MaxFiled), 1..MaxFiled) : Started(d)

\* One call of update_request_operator_side, each argument None or a value.
CallUpdateOperatorSide ==
    /\ IsNull(result)
    /\ \E request_id \in RequestIds(db) \cup {NoSuchRequest(db)},
          operator_group \in GroupArgs, responsible_operator \in OperatorArgs,
          observers_text \in ObserversArgs, status_name \in StatusArgs,
          priority \in PriorityArgs, ticket_type \in TypeArgs, master_name \in MasterArgs :
          \E o \in update_request_operator_side(db, request_id, operator_group,
                      responsible_operator, observers_text, status_name, priority,
                      ticket_type, master_name) :
             /\ db' = o.db
             /\ result' = Called("update_request_operator_side",
                                 <<request_id, operator_group, responsible_operator,
                                   observers_text, status_name, priority, ticket_type,
                                   master_name>>, o)
    /\ calls' = calls + 1
    /\ UNCHANGED <<tabs, issued, objects>>

NextOperatorSide == CallUpdateOperatorSide

SpecOperatorSide == InitOperatorSide /\ [][NextOperatorSide]_vars

\* The stored value of a column of a ticket, and its status name.
Stored(d, request_id, column) ==
    {d.requests[i][column] : i \in {j \in DOMAIN d.requests :
                                       d.requests[j].request_id = request_id}}

StatusNameOf(d, request_id) ==
    {t.status : t \in {x \in Shown(d) : x.request_id = request_id}}

\* C6: after a call of update_request_operator_side, each of operator_group,
\* responsible_operator, observers_text, status, priority, ticket_type and
\* technician whose argument was None holds the value stored before the call,
\* and every other ticket is as it was.
C6_NoneArgumentsLeaveColumns ==
    [][CallUpdateOperatorSide =>
         LET a == Val(result').args
             id == a[1]
             same(column) == Stored(db', id, column) = Stored(db, id, column)
         IN /\ IsNull(a[2]) => same("operator_group")
            /\ IsNull(a[3]) => same("responsible_operator")
            /\ IsNull(a[4]) => same("observers_text")
            /\ IsNull(a[5]) => /\ same("status_id")
                               /\ StatusNameOf(db', id) = StatusNameOf(db, id)
            /\ IsNull(a[6]) => same("priority")
            /\ IsNull(a[7]) => same("ticket_type")
            /\ IsNull(a[8]) => same("master_id")
            /\ Len(db'.requests) = Len(db.requests)
            /\ \A i \in DOMAIN db.requests :
                  db.requests[i].request_id # id => db'.requests[i] = db.requests[i]
            /\ \A t \in Shown(db) : t.request_id # id => t \in Shown(db')]_vars

\* A call that passed None for the master name, and a priority, to a ticket
\* that has a technician: the priority changed.
C6_PartialUpdateOfAssignedTicket ==
    /\ ~IsNull(result)
    /\ Val(result).call = "update_request_operator_side"
    /\ IsNull(Val(result).args[8]) /\ IsNull(Val(result).args[2])
    /\ ~IsNull(Val(result).args[6])
    /\ Stored(db, Val(result).args[1], "master_id") = {Some(1)}
    /\ Stored(db, Val(result).args[1], "operator_group") = {Some(<<"G">>)}
    /\ Stored(db, Val(result).args[1], "priority") = {VYSOKIY}


(***************************************************************************)
(* The technician's list: fetch_requests_for_master over the stores in     *)
(* which tickets were filed on several days and given priorities and       *)
(* technicians by the operator.                                            *)
(***************************************************************************)
\* How many tickets are in those stores.
MaxQueued == 3

Priorities == {NIZKIY, SREDNIY, VYSOKIY, <<"X">>}
\* A surname finds any user: the technician, or the client 'Iv An'.
AssignedNames == {PETROV, <<"I","v">>}

RECURSIVE Queued(_)
Queued(n) ==
    IF n = 0 THEN {InitDb}
    ELSE LET days(d) == {d} \cup (IF d.clock < MaxClock
                                  THEN {[d EXCEPT !.clock = @ + 1]} ELSE {})
             filed == UNION { UNION { { o.db : o \in ClientTab_create_ticket(
                                           day, ClientTabInit, <<"I","v"," ","A","n">>,
                                           <<"1">>, <<"p","c">>, << >>, <<"d">>) }
                                      : day \in days(d) }
                              : d \in Queued(n - 1) }
         IN filed \cup
            UNION { UNION { { o.db : o \in update_request_operator_side(
                                        d, n, NULL, NULL, NULL, NULL, Some(p), NULL,
                                        Some(m)) }
                            : p \in Priorities, m \in AssignedNames }
                    : d \in filed }

InitMasterList == \E d \in Queued(MaxQueued) : Started(d)

CallFetchRequestsForMaster ==
    /\ IsNull(result)
    /\ \E master_id \in UserIds(db) \cup {NoSuchUser(db)} :
          result' = Called("fetch_requests_for_master", <<master_id>>,
                           Out(db, fetch_requests_for_master(db, master_id)))
    /\ calls' = calls + 1
    /\ UNCHANGED <<db, tabs, issued, objects>>

NextMasterList == CallFetchRequestsForMaster

SpecMasterList == InitMasterList /\ [][NextMasterList]_vars

\* The rank the list is to be ordered by: high, medium, low, anything else.
ClaimedRank(priority) ==
    CASE priority = VYSOKIY -> 1
      [] priority = SREDNIY -> 2
      [] priority = NIZKIY -> 3
      [] OTHER -> 4

\* C7: fetch_requests_for_master(m) returns each ticket whose master_id is m
\* once and no other ticket, ordered by priority rank (high, medium, low,
\* other), then by ascending start date, then by ascending identifier.
C7_MasterListExactAndOrdered ==
    (~IsNull(result) /\ Val(result).call = "fetch_requests_for_master") =>
        LET rows == Val(result).ret
            m == Val(result).args[1]
        IN /\ {rows[i].request_id : i \in DOMAIN rows}
                = {db.requests[i].request_id :
                      i \in {j \in DOMAIN db.requests : db.requests[j].master_id = Some(m)}}
           /\ \A i, j \in DOMAIN rows :
                 i < j =>
                    /\ rows[i].request_id # rows[j].request_id
                    /\ \/ ClaimedRank(rows[i].priority) < ClaimedRank(rows[j].priority)
                       \/ /\ ClaimedRank(rows[i].priority) = ClaimedRank(rows[j].priority)
                          /\ \/ rows[i].start_date < rows[j].start_date
                             \/ /\ rows[i].start_date = rows[j].start_date
                                /\ rows[i].request_id < rows[j].request_id

\* Tickets filed on one day with the priorities low, high, medium, in this
\* order, came back as high, medium, low.
C7_LowHighMediumComeBackOrdered ==
    /\ ~IsNull(result)
    /\ Val(result).call = "fetch_requests_for_master"
    /\ Len(Val(result).ret) = 3
    /\ Val(result).ret[1].priority = VYSOKIY /\ Val(result).ret[1].request_id = 2
    /\ Val(result).ret[2].priority = SREDNIY /\ Val(result).ret[2].request_id = 3
    /\ Val(result).ret[3].priority = NIZKIY /\ Val(result).ret[3].request_id = 1
    /\ \A i \in 1..3 : Val(result).ret[i].start_date = Val(result).ret[1].start_date


(***************************************************************************)
(* The JSON backend: a ticket object read from the file becomes a Ticket,  *)
(* gets messages and attachments, is written back and read again.          *)
(***************************************************************************)
\* How many keys of a document differ from the document it is a variant of.
MaxVaried == 1
\* How many messages and attachments are added to a Ticket.
MaxAppends == 1

\* What datetime.now().strftime("%Y-%m-%d %H:%M") may give.
Times == {<<"t","1">>, <<"t","2">>}

TicketKeys == {"ticket_id", "device_type", "device_model", "problem_description",
               "client_name", "client_phone", "status", "priority", "ticket_type",
               "operator_group", "responsible_operator", "observers",
               "assigned_master", "history", "attachments", "requires_parts",
               "created_at", "updated_at", "report", "notify_client"}

MessageDict(text, created_at) ==
    [author_role |-> <<"c">>, author_name |-> <<"I","v">>, text |-> text,
     created_at |-> created_at]

\* A document with the required keys only, one with the time stamps too, and
\* one with every key.
MinimalDoc ==
    [ticket_id |-> 1, device_type |-> <<"p","c">>, device_model |-> <<"m">>,
     problem_description |-> <<"d">>, client_name |-> <<"I","v">>,
     client_phone |-> <<"1">>]

DatedDoc ==
    [ticket_id |-> 1, device_type |-> <<"p","c">>, device_model |-> <<"m">>,
     problem_description |-> <<"d">>, client_name |-> <<"I","v">>,
     client_phone |-> <<"1">>,
     created_at |-> Some(<<"t","0">>), updated_at |-> Some(<<"t","0">>)]

FullDoc ==
    [ticket_id |-> 1, device_type |-> <<"p","c">>, device_model |-> <<"m">>,
     problem_description |-> <<"d">>, client_name |-> <<"I","v">>,
     client_phone |-> <<"1">>,
     status |-> V_RABOTE, priority |-> VYSOKIY, ticket_type |-> <<"t">>,
     operator_group |-> <<"g">>, responsible_operator |-> <<"o">>,
     observers |-> Some(<< <<"w">> >>), assigned_master |-> PETROV,
     history |-> << MessageDict(<<"a">>, Some(<<"t","0">>)) >>,
     attachments |-> << [filename |-> <<"f">>, description |-> <<"n">>] >>,
     requires_parts |-> TRUE,
     created_at |-> Some(<<"t","0">>), updated_at |-> Some(<<"t","1">>),
     report |-> <<"r">>, notify_client |-> TRUE]

BaseDocs == <<MinimalDoc, DatedDoc, FullDoc>>

\* The values a variant may give a key.
Alternatives(key) ==
    CASE key = "ticket_id" -> <<2>>
      [] key \in {"requires_parts", "notify_client"} -> <<FALSE, TRUE>>
      [] key = "observers" -> <<NULL, Some(<< >>), Some(<< <<"v">>, <<"w">> >>)>>
      [] key \in {"created_at", "updated_at"} -> <<NULL, Some(<< >>), Some(<<"t","2">>)>>
      [] key = "history" ->
            << << >>,
               << MessageDict(<<"a">>, Some(<< >>)) >>,
               << MessageDict(<<"a">>, Some(<<"t","0">>)), MessageDict(<< >>, NULL) >>,
               << [author_role |-> <<"c">>, author_name |-> <<"I","v">>,
                   created_at |-> Some(<<"t","0">>)] >> >>
      [] key = "attachments" ->
            << << >>,
               << [filename |-> <<"f">>] >>,
               << [filename |-> <<"f">>, description |-> <<"n">>],
                  [filename |-> << >>, description |-> << >>] >>,
               << [description |-> <<"n">>] >> >>
      [] OTHER -> << << >>, <<"x">> >>

\* The variant of doc in which each key of DOMAIN choice is absent (choice 0)
\* or holds its alternative of that number.
Variant(doc, choice) ==
    [k \in (DOMAIN doc \ {x \in DOMAIN choice : choice[x] = 0})
             \cup {x \in DOMAIN choice : choice[x] > 0} |->
        IF k \in DOMAIN choice THEN Alternatives(k)[choice[k]] ELSE doc[k]]

\* The keyword arguments with the values of the document doc: its messages
\* and attachments as objects, an absent key as an argument not passed.
Kwargs(doc, now) ==
    [k \in DOMAIN doc |->
        CASE k = "history" ->
                 Some([i \in DOMAIN doc[k] |->
                          Message(doc[k][i].author_role, doc[k][i].author_name,
                                  doc[k][i].text, doc[k][i].created_at, now)])
          [] k = "attachments" ->
                 Some([i \in DOMAIN doc[k] |->
                          Attachment(doc[k][i].filename,
                                     Get(doc[k][i], "description", << >>))])
          [] OTHER -> doc[k]]

Docs ==
    UNION { { Variant(BaseDocs[b], choice)
              : choice \in {c \in [keys -> 0..4] :
                               \A k \in keys : c[k] <= Len(Alternatives(k))} }
            : b \in DOMAIN BaseDocs,
              keys \in {K \in SUBSET TicketKeys : Cardinality(K) <= MaxVaried} }

\* Either a document was read from the file, or the program constructed a
\* Ticket.
InitTicket ==
    /\ Opened(InitDb)
    /\ \E doc \in Docs :
          \/ data = Some(doc) /\ ticket = NULL
          \/ /\ ~Ticket_from_dict_raises(doc)
             /\ data = NULL
             /\ \E now \in Times : ticket = Some(Ticket(Kwargs(doc, now), now))
    /\ dumped = NULL /\ loaded = NULL
    /\ backend = "json"
    /\ NoSystems

\* Ticket.from_dict on the document read (nothing happens when it raises).
LoadTicket ==
    /\ backend = "json"
    /\ ~IsNull(data) /\ IsNull(ticket)
    /\ ~Ticket_from_dict_raises(Val(data))
    /\ \E now \in Times : ticket' = Some(Ticket_from_dict(Val(data), now))
    /\ UNCHANGED <<db, tabs, issued, result, calls, data, dumped, loaded, backend, file, systems>>

TicketAddMessage ==
    /\ backend = "json"
    /\ ~IsNull(ticket) /\ IsNull(dumped)
    /\ calls < MaxAppends
    /\ \E now \in Times, text \in {<<"b">>}, created_at \in {NULL, Some(<<"t","0">>)} :
          ticket' = Some(Ticket_add_message(Val(ticket),
                            Message(<<"m">>, PETROV, text, created_at, now), now))
    /\ calls' = calls + 1
    /\ UNCHANGED <<db, tabs, issued, result, data, dumped, loaded, backend, file, systems>>

TicketAddAttachment ==
    /\ backend = "json"
    /\ ~IsNull(ticket) /\ IsNull(dumped)
    /\ calls < MaxAppends
    /\ \E now \in Times, description \in {<< >>, <<"n">>} :
          ticket' = Some(Ticket_add_attachment(Val(ticket),
                            Attachment(<<"g">>, description), now))
    /\ calls' = calls + 1
    /\ UNCHANGED <<db, tabs, issued, result, data, dumped, loaded, backend, file, systems>>

\* Ticket.to_dict of the ticket, as TicketSystem._save writes it.
DumpTicket ==
    /\ backend = "json"
    /\ ~IsNull(ticket) /\ IsNull(dumped)
    /\ dumped' = Some(Ticket_to_dict(Val(ticket)))
    /\ UNCHANGED <<db, tabs, issued, result, calls, data, ticket, loaded, backend, file, systems>>

\* Ticket.from_dict on what was written, as TicketSystem.__init__ reads it.
ReloadTicket ==
    /\ backend = "json"
    /\ ~IsNull(dumped) /\ IsNull(loaded)
    /\ ~Ticket_from_dict_raises(Val(dumped))
    /\ \E now \in Times : loaded' = Some(Ticket_from_dict(Val(dumped), now))
    /\ UNCHANGED <<db, tabs, issued, result, calls, data, ticket, dumped, backend, file, systems>>

NextTicket ==
    \/ LoadTicket
    \/ TicketAddMessage
    \/ TicketAddAttachment
    \/ DumpTicket
    \/ ReloadTicket

SpecTicket == InitTicket /\ [][NextTicket]_vars

\* C2: the Ticket that from_dict makes of t.to_dict() has every field equal to
\* the field of t, whatever messages, attachments and field values t has.
C2_FromDictOfToDictIsTheTicket ==
    ~IsNull(loaded) => \A field \in TicketKeys : Val(loaded)[field] = Val(ticket)[field]

\* A ticket constructed with an empty string, no observers and two messages
\* got an attachment, was written and was read again.
C2_ReloadedTicketWithHistory ==
    /\ ~IsNull(loaded) /\ IsNull(data)
    /\ Val(ticket).operator_group = << >> /\ Val(ticket).observers = << >>
    /\ Len(Val(ticket).history) = 2 /\ Len(Val(ticket).attachments) = 1
    /\ Val(ticket).created_at # Val(ticket).updated_at

\* The document x with every absent optional key holding its default
\* (created_at and updated_at: None; an attachment's description: "").
WithDefaults(x) ==
    [k \in TicketKeys |->
        CASE k = "attachments" ->
                 [i \in DOMAIN Get(x, k, << >>) |->
                     [filename |-> x[k][i].filename,
                      description |-> Get(x[k][i], "description", << >>)]]
          [] k \in DOMAIN x -> x[k]
          [] k = "status" -> NOVAYA
          [] k = "priority" -> SREDNIY
          [] k = "ticket_type" -> STANDARTNAYA
          [] k = "observers" -> Some(<< >>)
          [] k = "history" -> << >>
          [] k \in {"requires_parts", "notify_client"} -> FALSE
          [] k \in {"created_at", "updated_at"} -> NULL
          [] OTHER -> << >>]

\* The ticket is as from_dict made it of the document.
AsLoaded ==
    ~IsNull(data) /\ \E now \in Times : Val(ticket) = Ticket_from_dict(Val(data), now)

\* The document has non-empty time stamps, also in its messages, and its
\* observers are absent or a list.
Stamped(x) ==
    /\ Truthy(Get(x, "created_at", NULL))
    /\ Truthy(Get(x, "updated_at", NULL))
    /\ ~IsNull(Get(x, "observers", Some(<< >>)))
    /\ \A i \in DOMAIN Get(x, "history", << >>) : Truthy(x.history[i].created_at)

\* C3 as claimed: for every document x that from_dict accepts,
\* from_dict(x).to_dict() equals x in every field, an absent optional key
\* counting as its default.
C3_ToDictOfFromDictIsTheDocument ==
    (~IsNull(dumped) /\ AsLoaded) =>
        \A k \in TicketKeys : Val(dumped)[k] = WithDefaults(Val(data))[k]

\* C3 as amended: the same for the documents whose created_at and updated_at
\* are present and non-empty, whose messages have a non-empty created_at and
\* whose observers are absent or a list.
C3_ToDictOfFromDictIsTheStampedDocument ==
    (~IsNull(dumped) /\ AsLoaded /\ Stamped(Val(data))) =>
        \A k \in TicketKeys : Val(dumped)[k] = WithDefaults(Val(data))[k]

\* A document without any optional key but the time stamps, with an
\* attachment without description, went through from_dict and to_dict.
C3_SparseDocumentWentRound ==
    /\ ~IsNull(dumped) /\ AsLoaded /\ Stamped(Val(data))
    /\ "status" \notin DOMAIN Val(data) /\ "observers" \notin DOMAIN Val(data)
    /\ "attachments" \in DOMAIN Val(data)
    /\ \E i \in DOMAIN Val(data).attachments :
          "description" \notin DOMAIN Val(data).attachments[i]


(***************************************************************************)
(* Both backends under every writing operation: the functions of           *)
(* db_connection.py called on a store with tickets, or the methods of a    *)
(* Ticket of ticket_system.py.                                             *)
(***************************************************************************)
\* How many calls of db_connection.py are made.
MaxCalls == 3

InitBackends ==
    \/ \E d \in Filed(MaxFiled) : Started(d)
    \/ InitTicket

\* A call of db_connection.py with the outcomes it may have.
Calls(outcomes) ==
    /\ backend = "relational"
    /\ calls < MaxCalls
    /\ \E o \in outcomes : db' = o.db
    /\ calls' = calls + 1
    /\ UNCHANGED <<tabs, issued, result, objects>>

CallAddComment ==
    /\ RoomForComment
    /\ \E request_id \in RequestIds(db) \cup {NoSuchRequest(db)}, user_id \in UserIds(db) :
          Calls(add_comment(db, request_id, user_id, <<"k">>))

CallAddAttachment ==
    /\ RoomForAttachment
    /\ \E request_id \in RequestIds(db), user_id \in {NULL, Some(1)} :
          Calls(add_attachment(db, request_id, user_id, <<"f">>, << >>))

CallUpdateStatusAndReport ==
    \E request_id \in RequestIds(db),
       status_id \in {db.request_statuses[i].status_id : i \in DOMAIN db.request_statuses},
       report \in {NULL, Some(<<"r">>)} :
       Calls(update_request_status_and_report(db, request_id, status_id, report, TRUE))

CallSetRequiresParts ==
    \E request_id \in RequestIds(db) :
       Calls(set_request_requires_parts(db, request_id, TRUE))

CallUpdateClientSide ==
    \E request_id \in RequestIds(db) :
       Calls(update_request_client_side(db, request_id, Some(<<"D">>), Some(<<"m">>)))

CallAssign ==
    \E request_id \in RequestIds(db) :
       Calls(update_request_operator_side(db, request_id, NULL, NULL, NULL,
                                          Some(V_RABOTE), Some(VYSOKIY), NULL,
                                          Some(PETROV)))

CallCreateRequest ==
    /\ backend = "relational"
    /\ calls < MaxCalls
    /\ RoomForRequest
    /\ \E r \in RequestIds(db) :
          \E o \in create_request(db, CHOOSE c \in Stored(db, r, "client_id") : TRUE,
                                  CHOOSE e \in Stored(db, r, "equipment_id") : TRUE,
                                  <<"d">>) :
             db' = o.db /\ issued' = issued \cup {o.ret}
    /\ calls' = calls + 1
    /\ UNCHANGED <<tabs, result, objects>>

CallDeleteRequest ==
    \E request_id \in RequestIds(db) : Calls(delete_request(db, request_id))

\* The clock of the database server moves on between two calls.
CallsTick ==
    /\ backend = "relational"
    /\ Tick

NextBackends ==
    \/ CallAddComment
    \/ CallAddAttachment
    \/ CallUpdateStatusAndReport
    \/ CallSetRequiresParts
    \/ CallUpdateClientSide
    \/ CallAssign
    \/ CallCreateRequest
    \/ CallDeleteRequest
    \/ CallsTick
    \/ LoadTicket
    \/ TicketAddMessage
    \/ TicketAddAttachment
    \/ DumpTicket
    \/ ReloadTicket

SpecBackends == InitBackends /\ [][NextBackends]_vars


\* a is an initial part of b.
IsPrefix(a, b) == Len(a) <= Len(b) /\ SubSeq(b, 1, Len(a)) = a

\* C9: in both backends the messages and the attachments of a ticket that
\* continues to exist are append-only: after every operation the lists
\* returned (fetch_request_comments and fetch_attachments, or the history and
\* attachments of the Ticket, also once written and read again) begin with
\* the lists as they were, unmodified and in the same order.
C9_MessagesAndAttachmentsAppendOnly ==
    [][/\ backend = "relational" =>
             \A id \in RequestIds(db) \cap RequestIds(db') :
                /\ IsPrefix(fetch_request_comments(db, id), fetch_request_comments(db', id))
                /\ IsPrefix(fetch_attachments(db, id), fetch_attachments(db', id))
       /\ (backend = "json" /\ ~IsNull(ticket)) =>
             /\ ~IsNull(ticket')
             /\ IsPrefix(Val(ticket).history, Val(ticket').history)
             /\ IsPrefix(Val(ticket).attachments, Val(ticket').attachments)
             /\ ~IsNull(loaded') =>
                   /\ Val(loaded').history = Val(ticket').history
                   /\ Val(loaded').attachments = Val(ticket').attachments]_vars

\* A ticket got a comment, was then updated by the operator on a later day
\* and got a second comment, which is listed after the first.
C9_SecondCommentAfterUpdate ==
    /\ backend = "relational"
    /\ \E id \in RequestIds(db) :
          /\ Len(fetch_request_comments(db, id)) = 2
          /\ fetch_request_comments(db, id)[1].comment_id = 1
          /\ fetch_request_comments(db, id)[1].created_at
                < fetch_request_comments(db, id)[2].created_at
          /\ Stored(db, id, "priority") = {VYSOKIY}

\* C10: in the relational backend no two tickets share an identifier, and
\* every operation but delete_request keeps every ticket, under its
\* identifier, with the client, the equipment and the start date it was
\* created with; a ticket that is kept after a deletion keeps them too.
C10_IdentifiersUniqueAndStable ==
    /\ [](\A i, j \in DOMAIN db.requests :
             db.requests[i].request_id = db.requests[j].request_id => i = j)
    /\ [][/\ ~CallDeleteRequest => RequestIds(db) \subseteq RequestIds(db')
          /\ \A id \in RequestIds(db) \cap RequestIds(db') :
                /\ Stored(db', id, "client_id") = Stored(db, id, "client_id")
                /\ Stored(db', id, "equipment_id") = Stored(db, id, "equipment_id")
                /\ Stored(db', id, "start_date") = Stored(db, id, "start_date")]_vars

\* A ticket was deleted, another was updated by the operator and a new one
\* was created.
C10_CreatedAfterDeleteAndUpdate ==
    /\ backend = "relational"
    /\ \E n \in issued : ~RequestExists(db, n)
    /\ \E n \in RequestIds(db) : Stored(db, n, "priority") = {VYSOKIY}
    /\ RequestExists(db, MaxFiled + 1)

\* The rows of a table of comments or attachments that reference a ticket.
RowsOf(rows, request_id) == SelectSeq(rows, LAMBDA x : x.request_id = request_id)

\* C12: after delete_request(id) the ticket id is gone and no comment and no
\* attachment references id, while the other tickets and the comments and
\* attachments of every other ticket are as they were.
C12_DeleteCascadesToDependents ==
    [][\A id \in RequestIds(db) :
          Calls(delete_request(db, id)) =>
             /\ ~RequestExists(db', id)
             /\ RowsOf(db'.comments, id) = << >>
             /\ RowsOf(db'.attachments, id) = << >>
             /\ \A other \in RequestIds(db) \ {id} :
                   /\ Stored(db', other, "status_id") = Stored(db, other, "status_id")
                   /\ RowsOf(db'.comments, other) = RowsOf(db.comments, other)
                   /\ RowsOf(db'.attachments, other) = RowsOf(db.attachments, other)]_vars

\* Two tickets had a comment each; the first ticket was deleted, its comment
\* went with it and the comment of the second ticket is kept.
C12_CommentedTicketDeleted ==
    /\ backend = "relational"
    /\ ~RequestExists(db, 1) /\ RequestExists(db, 2)
    /\ db.auto.comments = 3
    /\ Len(db.comments) = 1 /\ db.comments[1].request_id = 2


(***************************************************************************)
(* The whole floor: the three tabs of one window, on a store in which      *)
(* tickets were filed and some were handled by the operator.  A behaviour  *)
(* is a run of events that show no message box (searching, selecting,      *)
(* picking, naming the technician), ended by one event that shows a box.   *)
(***************************************************************************)
\* How many tickets the store of the floor starts with.
MaxFloor == 2

\* Texts that are empty after strip().
Blank == {<< >>, <<" ">>}

\* The stores of the floor: the first client (phone '1') filed a ticket 'd',
\* then a ticket 'D' was filed from either phone, and the operator handled
\* the first ticket or did not.
FloorStores ==
    {d \in Handled(Filed(MaxFloor), {1}) :
        /\ d.users[2].phone = <<"1">>
        /\ d.requests[1].problem_description = <<"d">>
        /\ d.requests[2].problem_description = <<"D">>}

InitFloor == \E d \in FloorStores : Started(d)

\* create_ticket with a required field left blank.
ClientCreateIncomplete ==
    \E name \in Names \cup Blank, phone \in Phones \cup Blank,
       dtype \in DeviceTypes \cup Blank, dmodel \in DeviceModels,
       problem \in Problems \cup Blank :
        /\ \E text \in {name, phone, dtype, problem} : text \in Blank
        /\ ClientDoes(ClientTab_create_ticket(db, client, name, phone, dtype, dmodel,
                                              problem))

ClientSearchBlank ==
    \E phone \in Blank : ClientDoes(ClientTab_search_tickets(db, client, phone))

ClientCheckBlank ==
    \E phone \in Blank : ClientDoes(ClientTab_check_notifications(db, client, phone))

OperatorSearchBlank ==
    \E text \in Blank : OperatorDoes(OperatorTab_search_archive(db, operator, text))

MasterSetBlank ==
    \E name \in Blank : MasterDoes(MasterTab_set_master(db, master, name))

MasterReportBlank ==
    \E report \in Blank : MasterDoes(MasterTab_save_report(db, master, report))

\* No message box is shown.
Idle == dialog = << >>

NextFloor ==
    \/ Idle /\ Launch
    \/ Idle /\ Tick
    \/ Idle /\ ClientCreateTicket
    \/ Idle /\ ClientCreateIncomplete
    \/ Idle /\ ClientSearchTickets
    \/ Idle /\ ClientSearchBlank
    \/ Idle /\ ClientSelect
    \/ Idle /\ ClientSaveChanges
    \/ Idle /\ ClientAttachFile
    \/ Idle /\ ClientCheckNotifications
    \/ Idle /\ ClientCheckBlank
    \/ Idle /\ OperatorSelect
    \/ Idle /\ OperatorPickStatus
    \/ Idle /\ OperatorPickPriority
    \/ Idle /\ OperatorSaveChanges
    \/ Idle /\ OperatorDeleteDuplicates
    \/ Idle /\ OperatorSearchArchive
    \/ Idle /\ OperatorSearchBlank
    \/ Idle /\ MasterSetMaster
    \/ Idle /\ MasterSetBlank
    \/ Idle /\ MasterSelect
    \/ Idle /\ MasterPickStatus
    \/ Idle /\ MasterSendForParts
    \/ Idle /\ MasterSaveStatus
    \/ Idle /\ MasterSaveReport
    \/ Idle /\ MasterReportBlank
    \/ Idle /\ MasterAttachFile

SpecFloor == InitFloor /\ [][NextFloor]_vars


(***************************************************************************)
(* Claims about the whole floor.                                           *)
(***************************************************************************)
\* C11: a ticket leaves the store only when the operator's duplicate cleanup
\* asked about that very ticket and the operator answered yes; no other
\* event of the client, operator or technician tab removes a ticket.
C11_TicketsLeaveOnlyByConfirmedCleanup ==
    [][\A id \in RequestIds(db) \ RequestIds(db') :
          \E yes \in [1..Len(db.requests) -> BOOLEAN] :
             /\ OperatorDoes(OperatorTab_delete_duplicates(db, operator, yes))
             /\ \E i \in DOMAIN fetch_all_requests(db) :
                   fetch_all_requests(db)[i].request_id = id /\ yes[i]
             /\ \E f \in Flagged(dialog') : f[1] = id]_vars

\* The cleanup asked about a ticket, the operator said yes, and the ticket is
\* gone while the ticket it duplicated is kept.
C11_ConfirmedDuplicateRemoved ==
    \E f \in Flagged(dialog) : ~RequestExists(db, f[1]) /\ RequestExists(db, f[2])


(***************************************************************************)
(* tickets_data.json and the processes that work on it.  Each process      *)
(* builds a TicketSystem, adds a message and an attachment to tickets it   *)
(* holds, and saves; result keeps the last call and the process that made  *)
(* it.  (ticket_system.py has no other operation that changes a            *)
(* TicketSystem.)                                                          *)
(***************************************************************************)
\* The document of a second ticket.
SecondDoc == [FullDoc EXCEPT !.ticket_id = 2]

\* The files a process may find: none, an empty collection, one ticket, two
\* tickets, and a file without next_id whose ticket has no time stamps.
StoredFiles ==
    {NULL,
     Some([tickets |-> << >>, next_id |-> 1]),
     Some([tickets |-> <<DatedDoc>>, next_id |-> 2]),
     Some([tickets |-> <<DatedDoc, SecondDoc>>, next_id |-> 3]),
     Some([tickets |-> <<MinimalDoc>>])}

InitFiles ==
    /\ Opened(InitDb)
    /\ data = NULL /\ ticket = NULL /\ dumped = NULL /\ loaded = NULL
    /\ backend = "json"
    /\ file \in StoredFiles
    /\ systems = [p \in Processes |-> NULL]

\* The name under which process p writes its message and its attachment.
Tag(p) == <<"p">> \o str(p)

\* Whether a list of messages (objects or dicts) has one written by p, and
\* whether a list of attachments has the file of p.
HasMessageOf(history, p) == \E j \in DOMAIN history : history[j].author_name = Tag(p)

HasAttachmentOf(attachments, p) ==
    \E j \in DOMAIN attachments : attachments[j].filename = Tag(p)

\* What a step of process p leaves in result.
SystemCalled(name, p) == Called(name, <<p>>, Out(db, NULL))

\* ts = TicketSystem()
SystemStart ==
    /\ backend = "json"
    /\ \E p \in Processes :
          /\ IsNull(systems[p])
          /\ ~TicketSystem_init_raises(file)
          /\ \E now \in Times :
                systems' = [systems EXCEPT ![p] = Some(TicketSystem_init(file, now))]
          /\ result' = SystemCalled("TicketSystem.__init__", p)
    /\ UNCHANGED <<db, tabs, issued, calls, data, ticket, dumped, loaded, backend, file>>

\* ts.tickets[i].add_message(Message(...)), once per process
SystemAddMessage ==
    /\ backend = "json"
    /\ \E p \in Processes :
          /\ ~IsNull(systems[p])
          /\ \A i \in DOMAIN Val(systems[p]).tickets :
                ~HasMessageOf(Val(systems[p]).tickets[i].history, p)
          /\ \E i \in DOMAIN Val(systems[p]).tickets, now \in Times :
                systems' = [systems EXCEPT ![p] =
                    Some([Val(@) EXCEPT !.tickets[i] =
                            Ticket_add_message(@, Message(<<"m">>, Tag(p), <<"b">>,
                                                          NULL, now), now)])]
          /\ result' = SystemCalled("Ticket.add_message", p)
    /\ UNCHANGED <<db, tabs, issued, calls, data, ticket, dumped, loaded, backend, file>>

\* ts.tickets[i].add_attachment(Attachment(...)), once per process
SystemAddAttachment ==
    /\ backend = "json"
    /\ \E p \in Processes :
          /\ ~IsNull(systems[p])
          /\ \A i \in DOMAIN Val(systems[p]).tickets :
                ~HasAttachmentOf(Val(systems[p]).tickets[i].attachments, p)
          /\ \E i \in DOMAIN Val(systems[p]).tickets, now \in Times :
                systems' = [systems EXCEPT ![p] =
                    Some([Val(@) EXCEPT !.tickets[i] =
                            Ticket_add_attachment(@, Attachment(Tag(p), << >>), now)])]
          /\ result' = SystemCalled("Ticket.add_attachment", p)
    /\ UNCHANGED <<db, tabs, issued, calls, data, ticket, dumped, loaded, backend, file>>

\* ts._save()
SystemSave ==
    /\ backend = "json"
    /\ \E p \in Processes :
          /\ ~IsNull(systems[p])
          /\ systems' = [systems EXCEPT ![p] = Some(TicketSystem_save(Val(@)).self)]
          /\ file' = TicketSystem_save(Val(systems[p])).file
          /\ result' = SystemCalled("TicketSystem._save", p)
    /\ UNCHANGED <<db, tabs, issued, calls, data, ticket, dumped, loaded, backend>>

NextFiles ==
    \/ SystemStart
    \/ SystemAddMessage
    \/ SystemAddAttachment
    \/ SystemSave

SpecFiles == InitFiles /\ [][NextFiles]_vars


(***************************************************************************)
(* Claims about tickets_data.json.                                         *)
(***************************************************************************)
\* The process that made the last call, and the call.
LastCall(r) == Val(r).call

LastProcess(r) == Val(r).args[1]

\* The file is what _save of the TicketSystem ts would write.
Flushed(f, ts) == f = TicketSystem_save(ts).file

\* C13 as claimed: in a process that works alone on the file, after
\* Ticket.add_message or Ticket.add_attachment on a ticket held by its
\* TicketSystem the file holds the serialization of the whole collection and
\* next_id.
C13_EveryMutationIsFlushed ==
    [][(SystemAddMessage \/ SystemAddAttachment) =>
          \A p \in Processes :
             (LastProcess(result') = p /\ \A q \in Processes \ {p} : IsNull(systems[q])) =>
                Flushed(file', Val(systems'[p]))]_vars

\* C14: after _save the file is an object with the keys tickets (a list) and
\* next_id (an integer), and a TicketSystem built from that file holds the
\* same tickets in the same order, field for field, and the same next_id.
C14_SavedFileLoadsBack ==
    [][SystemSave =>
          LET p == LastProcess(result')
              self == Val(systems'[p])
          IN /\ ~IsNull(file')
             /\ {"tickets", "next_id"} \subseteq DOMAIN Val(file')
             /\ Val(file').next_id \in Nat
             /\ DOMAIN Val(file').tickets = 1..Len(Val(file').tickets)
             /\ ~TicketSystem_init_raises(file')
             /\ \A now \in Times :
                   /\ TicketSystem_init(file', now).tickets = self.tickets
                   /\ TicketSystem_init(file', now).next_id = self.next_id]_vars

\* A process built its TicketSystem from a file without next_id and without
\* time stamps, added a message and an attachment, and saved.
C14_GrownCollectionSaved ==
    /\ ~IsNull(result) /\ LastCall(result) = "TicketSystem._save"
    /\ \E p \in Processes :
          /\ LastProcess(result) = p
          /\ Val(file).tickets # << >>
          /\ HasMessageOf(Val(file).tickets[1].history, p)
          /\ HasAttachmentOf(Val(file).tickets[1].attachments, p)
          /\ Val(file).tickets[1].status = NOVAYA
          /\ Val(file).next_id = 1

\* C15: a save never fails and leaves in the file the collection of the
\* process that saved, whatever the file held: the message and the attachment
\* of any process are in the file exactly if they are in the collection of
\* the saving process.
C15_LastWriterWins ==
    [][SystemSave =>
          LET p == LastProcess(result')
              self == Val(systems'[p])
          IN /\ ~Val(result').raised
             /\ ~IsNull(file')
             /\ Len(Val(file').tickets) = Len(self.tickets)
             /\ \A i \in DOMAIN self.tickets, q \in Processes :
                   /\ HasMessageOf(Val(file').tickets[i].history, q)
                         <=> HasMessageOf(self.tickets[i].history, q)
                   /\ HasAttachmentOf(Val(file').tickets[i].attachments, q)
                         <=> HasAttachmentOf(self.tickets[i].attachments, q)]_vars

\* Two processes built their TicketSystem from the same file, each added its
\* message and each saved: the file holds the message of the last one to
\* save and not the message that the other one had saved.
C15_UpdateLost ==
    /\ ~IsNull(result) /\ LastCall(result) = "TicketSystem._save"
    /\ \E p \in Processes, q \in Processes :
          /\ p # q /\ LastProcess(result) = p
          /\ ~IsNull(systems[q])
          /\ Val(file).tickets # << >> /\ Val(systems[q]).data.tickets # << >>
          /\ HasMessageOf(Val(file).tickets[1].history, p)
          /\ ~HasMessageOf(Val(file).tickets[1].history, q)
          /\ HasMessageOf(Get(Val(systems[q]).data.tickets[1], "history", << >>), q)


(***************************************************************************)
(* The intake: tickets are filed with varied inputs, get_or_create_client  *)
(* is called directly, and the process may die between two statements or   *)
(* between two calls.  Each function of db_connection.py opens its own     *)
(* connection and commits at most once, at its end.                        *)
(***************************************************************************)
\* How many calls and crashes happen at the intake.
MaxIntake == 3

IntakeNames == {<<"I">>, <<"A"," ","B">>}
IntakePhones == {<<"1">>, <<"9">>}
IntakeTypes == {<<"p","c">>, <<"t","v">>}
IntakeModels == {<< >>, <<"m">>}

\* A store that keeps every statement at once, whether committed or not.
Rollback_keeping(committed, working) == working

\* What the store holds after a connection was lost without commit: the rows
\* committed before; the AUTO_INCREMENT counters are not wound back.
Rollback(committed, working) == [committed EXCEPT !.auto = working.auto]

InitIntake == \E d \in Filed(0) \cup Filed(1) : Started(d)

\* The process is gone; the program is started again on the store left.
Killed ==
    /\ client' = ClientTabInit
    /\ operator' = OperatorTabInit(db')
    /\ master' = MasterTabInit
    /\ dialog' = << >>

\* result of a crash: the call, its arguments, and the step after which the
\* process died.
Crashed(name, args, after) ==
    Some([call |-> name, args |-> args, ret |-> after, raised |-> TRUE])

IntakeCreateTicket ==
    /\ calls < MaxIntake
    /\ RoomForRequest
    /\ \E name \in IntakeNames, phone \in IntakePhones, dtype \in IntakeTypes,
          dmodel \in IntakeModels :
          \E o \in ClientTab_create_ticket(db, client, name, phone, dtype, dmodel,
                                           <<"d">>) :
             /\ db' = o.db /\ client' = o.tab /\ dialog' = o.dialog
             /\ issued' = issued \cup Announced(o.dialog)
             /\ result' = Some([call |-> "create_ticket",
                                args |-> <<name, phone, dtype, dmodel>>,
                                ret |-> Announced(o.dialog), raised |-> FALSE])
    /\ calls' = calls + 1
    /\ UNCHANGED <<operator, master, objects>>

CallGetOrCreateClient ==
    /\ calls < MaxIntake
    /\ \E name \in IntakeNames, phone \in IntakePhones :
          \E o \in get_or_create_client(db, name, phone) :
             /\ db' = o.db
             /\ result' = Called("get_or_create_client", <<name, phone>>, o)
    /\ calls' = calls + 1
    /\ UNCHANGED <<tabs, issued, objects>>

CrashInGetOrCreateEquipment ==
    /\ calls < MaxIntake
    /\ \E dtype \in IntakeTypes, dmodel \in IntakeModels :
          \E w \in get_or_create_equipment_interrupted(db, dtype, dmodel) :
             /\ db' = Rollback(db, w.db)
             /\ result' = Crashed("get_or_create_equipment", <<dtype, dmodel>>, w.after)
    /\ Killed
    /\ calls' = calls + 1
    /\ UNCHANGED <<issued, objects>>

CrashInCreateTicket ==
    /\ calls < MaxIntake
    /\ \E name \in IntakeNames, phone \in IntakePhones, dtype \in IntakeTypes,
          dmodel \in IntakeModels :
          \E w \in ClientTab_create_ticket_interrupted(db, name, phone, dtype, dmodel) :
             /\ db' = w.db
             /\ result' = Crashed("create_ticket", <<name, phone, dtype, dmodel>>, w.after)
    /\ Killed
    /\ calls' = calls + 1
    /\ UNCHANGED <<issued, objects>>

NextIntake ==
    \/ IntakeCreateTicket
    \/ CallGetOrCreateClient
    \/ CrashInGetOrCreateEquipment
    \/ CrashInCreateTicket

SpecIntake == InitIntake /\ [][NextIntake]_vars


\* The rows of every table (the counters and the clock apart).
Rows(d) == [t \in Tables |-> d[t]]

\* This step is the death of the process inside `name`.
CrashStep(name) ==
    /\ calls' = calls + 1
    /\ result' # NULL
    /\ Val(result').call = name
    /\ Val(result').raised

HasType(d, type_name) ==
    \E i \in DOMAIN d.equipment_types : SqlEq(d.equipment_types[i].type_name, type_name)

HasEquipment(d, type_name, model) ==
    \E i \in DOMAIN d.equipment_types, j \in DOMAIN d.equipment :
        /\ SqlEq(d.equipment_types[i].type_name, type_name)
        /\ d.equipment[j].type_id = d.equipment_types[i].type_id
        /\ SqlEq(d.equipment[j].model, model)

HasCustomer(d, phone) ==
    \E i \in DOMAIN d.users, j \in DOMAIN d.roles :
        /\ SqlEq(d.users[i].phone, phone)
        /\ d.users[i].role_id = d.roles[j].role_id
        /\ SqlEq(d.roles[j].role_name, ZAKAZCHIK)

C17_BlankInputIsRefusedBeforeTheStore ==
    [][(\/ ClientCreateIncomplete
        \/ ClientSearchBlank
        \/ ClientCheckBlank
        \/ OperatorSearchBlank
        \/ MasterSetBlank
        \/ MasterReportBlank)
       => /\ db' = db
          /\ Len(dialog') = 1
          /\ dialog'[1].box = "warning"
          /\ client' = client
          /\ operator' = operator
          /\ master' \in {master, [master EXCEPT !.master_name = << >>]}]_vars

\* A technician with a ticket selected was refused a blank report: the
\* ticket in the store still has no report.
C17_BlankReportRefused ==
    /\ dialog = <<Box("warning", "Otchet ne mozhet byt pustym", << >>)>>
    /\ ~IsNull(master.current_request)
    /\ \E id \in RequestIds(db) :
          /\ id = Val(master.current_request).request_id
          /\ Stored(db, id, "report") = {NULL}


\* This step is a call of `name` that returned.
CallStep(name) ==
    /\ calls' = calls + 1
    /\ result' # NULL
    /\ Val(result').call = name
    /\ ~Val(result').raised

\* How many rows of a table satisfy a condition.
CountRows(rows, Cond(_)) == Cardinality({i \in DOMAIN rows : Cond(rows[i])})

\* C18: when create_ticket is submitted a second time with the inputs of the
\* submission before it, the second submission makes a second ticket: the
\* two announced identifiers differ, both tickets are in the store, and both
\* reference the same client row and the same equipment row, each of which
\* exists once (one customer with the phone, one equipment of the type and
\* model).
C18_ResubmissionMakesSecondTicket ==
    [][(/\ CallStep("create_ticket")
        /\ result # NULL
        /\ Val(result).call = "create_ticket"
        /\ ~Val(result).raised
        /\ Val(result).args = Val(result').args)
       => \E id1 \in Val(result).ret, id2 \in Val(result').ret :
             /\ Val(result).ret = {id1} /\ Val(result').ret = {id2}
             /\ id1 # id2
             /\ {id1, id2} \subseteq RequestIds(db')
             /\ Len(db'.requests) = Len(db.requests) + 1
             /\ Stored(db', id1, "client_id") = Stored(db', id2, "client_id")
             /\ Stored(db', id1, "equipment_id") = Stored(db', id2, "equipment_id")
             /\ \E c \in Stored(db', id2, "client_id"), e \in Stored(db', id2, "equipment_id") :
                   /\ CountRows(db'.users, LAMBDA u : u.user_id = c) = 1
                   /\ CountRows(db'.equipment, LAMBDA q : q.equipment_id = e) = 1
                   /\ db'.users = db.users
                   /\ db'.equipment = db.equipment
                   /\ db'.equipment_types = db.equipment_types
                   /\ CountRows(db'.users, LAMBDA u :
                         /\ SqlEq(u.phone, Val(result').args[2])
                         /\ \E j \in DOMAIN db'.roles :
                               /\ db'.roles[j].role_id = u.role_id
                               /\ SqlEq(db'.roles[j].role_name, ZAKAZCHIK)) = 1
                   /\ CountRows(db'.equipment, LAMBDA q :
                         /\ SqlEq(q.model, IF Val(result').args[4] # << >>
                                           THEN Val(result').args[4] ELSE MODEL_NE_UKAZANA)
                         /\ \E j \in DOMAIN db'.equipment_types :
                               /\ db'.equipment_types[j].type_id = q.type_id
                               /\ SqlEq(db'.equipment_types[j].type_name,
                                        Val(result').args[3])) = 1]_vars

\* After two submissions at the intake, two tickets with the same client
\* (created at the intake), equipment and problem are in the store, the
\* later one announced by the last submission.
C18_TwoTicketsOfOneSubmission ==
    /\ result # NULL
    /\ Val(result).call = "create_ticket"
    /\ ~Val(result).raised
    /\ \E id2 \in Val(result).ret, id1 \in RequestIds(db) :
          /\ id1 # id2
          /\ {id1, id2} \subseteq issued
          /\ calls = 2
          /\ \E i \in DOMAIN db.users :
                /\ Stored(db, id2, "client_id") = {db.users[i].user_id}
                /\ db.users[i].lastname = <<"I">>
          /\ Stored(db, id1, "client_id") = Stored(db, id2, "client_id")
          /\ Stored(db, id1, "equipment_id") = Stored(db, id2, "equipment_id")
          /\ Stored(db, id1, "problem_description") = Stored(db, id2, "problem_description")


\* The rows of users that are customers (role 'Заказчик') with this phone.
Customers(d, phone) ==
    {i \in DOMAIN d.users :
        /\ SqlEq(d.users[i].phone, phone)
        /\ \E j \in DOMAIN d.roles :
              /\ d.roles[j].role_id = d.users[i].role_id
              /\ SqlEq(d.roles[j].role_name, ZAKAZCHIK)}

\* C19: get_or_create_client(name, phone) returns the identifier of the
\* customer with that phone when there is one, whatever the name passed, and
\* leaves the users as they are (the stored name is not altered); otherwise
\* it adds exactly one user, a customer with that phone, and returns its
\* identifier.  So at all times at most one customer has a given phone.
C19_ClientsAreKeyedByPhone ==
    /\ [](\A i \in DOMAIN db.users :
             Cardinality(Customers(db, db.users[i].phone)) <= 1)
    /\ [][CallStep("get_or_create_client") =>
            LET phone == Val(result').args[2]
            IN IF Customers(db, phone) # {}
               THEN /\ db'.users = db.users
                    /\ \E i \in Customers(db, phone) :
                          Val(result').ret = db.users[i].user_id
               ELSE /\ Len(db'.users) = Len(db.users) + 1
                    /\ SubSeq(db'.users, 1, Len(db.users)) = db.users
                    /\ Customers(db', phone) = {Len(db'.users)}
                    /\ Val(result').ret = db'.users[Len(db'.users)].user_id
                    /\ \A i \in DOMAIN db.users :
                          db.users[i].user_id # Val(result').ret]_vars

\* get_or_create_client returned a customer stored under another name than
\* the one passed.
C19_FoundUnderAnotherName ==
    /\ result # NULL
    /\ Val(result).call = "get_or_create_client"
    /\ ~Val(result).raised
    /\ \E i \in Customers(db, Val(result).args[2]) :
          /\ db.users[i].user_id = Val(result).ret
          /\ db.users[i].lastname # _split_full_name(Val(result).args[1])[1]


\* C20: MasterTab.set_master with a non-empty name that matches no surname
\* and no login shows the warning that the technician was not found and
\* raises nothing; no ticket and no other row of the store changes, and the
\* tab then holds the name typed and no technician identity (master_id is
\* None), whoever was set before.
C20_UnknownTechnicianIsRefused ==
    [][\A name \in MasterNames :
          (/\ strip(name) # << >>
           /\ get_user_id_by_name_or_login(db, strip(name)) = {NULL}
           /\ MasterDoes(MasterTab_set_master(db, master, name)))
          => /\ dialog' = <<Box("warning", "Master ne nayden v BD", << >>)>>
             /\ db' = db
             /\ master'.master_id = NULL
             /\ master'.master_name = strip(name)]_vars

\* A technician who was set and had tickets listed typed an unknown name:
\* the tab holds no identity, and the table still lists the tickets.
C20_UnknownNameAfterKnown ==
    /\ dialog = <<Box("warning", "Master ne nayden v BD", << >>)>>
    /\ master.master_name = <<"X">>
    /\ master.master_id = NULL
    /\ master.requests # << >>


(***************************************************************************)
(* The client and the technician work on the same tickets, each from the   *)
(* list that their tab loaded.                                             *)
(***************************************************************************)
InitClientEdit == \E d \in Handled(Filed(1), {1}) : Started(d)

NextClientEdit ==
    \/ ClientSearchTickets
    \/ ClientSelect
    \/ ClientSaveChanges
    \/ MasterSetMaster
    \/ MasterSelect
    \/ MasterPickStatus
    \/ MasterSaveStatus

SpecClientEdit == InitClientEdit /\ [][NextClientEdit]_vars


\* The ticket `id` as the store shows it (joined with its client, equipment
\* and status).
ShownTicket(d, id) == CHOOSE t \in Shown(d) : t.request_id = id

\* The status names the technician tab treats as completion.
IsCompleted(status) == lower(status) \in {zavershena, vypolnena, gotova_k_vydache}

\* C21: whenever the status that the store holds for the selected ticket is
\* a completed status ('Завершена', 'Выполнена', 'Готова к выдаче'),
\* ClientTab.save_client_changes leaves the problem description and the
\* device model of the ticket as they are, also when the status was changed
\* after the client's list was loaded.
C21_CompletedTicketIsNotEdited ==
    [][\A m \in EditModels, p \in EditProblems, phone \in Phones :
          (/\ ~IsNull(client.current_request)
           /\ Val(client.current_request).request_id \in RequestIds(db)
           /\ IsCompleted(ShownTicket(db, Val(client.current_request).request_id).status)
           /\ ClientDoes(ClientTab_save_client_changes(db, client, m, p, phone)))
          => LET id == Val(client.current_request).request_id
             IN /\ ShownTicket(db', id).problem_description
                      = ShownTicket(db, id).problem_description
                /\ ShownTicket(db', id).equipment_model
                      = ShownTicket(db, id).equipment_model]_vars


(***************************************************************************)
(* The equipment: get_or_create_equipment and the client-side model edit   *)
(* called directly on a store with two tickets.                            *)
(***************************************************************************)
EquipmentModels == {<<"m">>, <<"n">>}

InitEquipment == \E d \in Filed(MaxFiled) : Started(d)

CallGetOrCreateEquipment ==
    \E type_name \in IntakeTypes, model \in EquipmentModels :
        Calls(get_or_create_equipment(db, type_name, model))

CallEditModel ==
    \E request_id \in RequestIds(db), model \in EquipmentModels :
        Calls(update_request_client_side(db, request_id, NULL, Some(model)))

NextEquipment ==
    \/ CallGetOrCreateEquipment
    \/ CallEditModel

SpecEquipment == InitEquipment /\ [][NextEquipment]_vars

\* C22: after update_request_client_side(request_id, new_model = m) every
\* other ticket shows the device type and the device model it showed before
\* the call.
C22_ModelEditTouchesOneTicket ==
    [][\A request_id \in RequestIds(db), model \in EquipmentModels :
          Calls(update_request_client_side(db, request_id, NULL, Some(model)))
          => \A other \in RequestIds(db) \ {request_id} :
                /\ ShownTicket(db', other).equipment_type
                      = ShownTicket(db, other).equipment_type
                /\ ShownTicket(db', other).equipment_model
                      = ShownTicket(db, other).equipment_model]_vars

\* C29: no two equipment rows have the same type and the same model, and no
\* two equipment-type rows have the same name.
C29_EquipmentUniquePerTypeAndModel ==
    /\ \A i, j \in DOMAIN db.equipment :
          (/\ db.equipment[i].type_id = db.equipment[j].type_id
           /\ SqlEq(db.equipment[i].model, db.equipment[j].model)) => i = j
    /\ \A i, j \in DOMAIN db.equipment_types :
          SqlEq(db.equipment_types[i].type_name, db.equipment_types[j].type_name) => i = j


(***************************************************************************)
(* The archive: search_requests called directly on stores with two         *)
(* tickets, handled by the operator or not.                                *)
(***************************************************************************)
ArchiveTexts == {<<"d">>, <<"D">>, <<"2">>, <<"r","a","b">>, <<"_">>, <<"%">>, <<"x">>}

InitArchive == \E d \in Handled(Filed(MaxFiled), 1..MaxFiled) : Started(d)

CallSearchRequests ==
    /\ \E text \in ArchiveTexts :
          result' = Called("search_requests", <<text>>, Out(db, search_requests(db, text)))
    /\ UNCHANGED <<db, tabs, issued, calls, objects>>

NextArchive == CallSearchRequests

SpecArchive == InitArchive /\ [][NextArchive]_vars

\* text is a substring of one of the nine fields of the ticket, compared
\* case-insensitively.
InSomeField(t, text) ==
    \/ Contains(str(t.request_id), text)
    \/ Contains(lower(t.client_lastname \o <<" ">> \o t.client_firstname
                      \o <<" ">> \o t.client_surname), text)
    \/ Contains(lower(t.client_phone), text)
    \/ Contains(lower(t.equipment_type), text)
    \/ Contains(lower(t.equipment_model), text)
    \/ Contains(lower(t.problem_description), text)
    \/ Contains(lower(t.status), text)
    \/ Contains(lower(t.priority), text)
    \/ (~IsNull(t.ticket_type) /\ Contains(lower(Val(t.ticket_type)), text))

\* C23: search_requests(text) returns a ticket if and only if the lowercased
\* text is a substring of at least one of the nine fields (identifier as
\* text, client full name, client phone, equipment type, equipment model,
\* problem description, status, priority, ticket type), and returns the
\* matches ordered by creation date descending, then identifier descending.
C23_SearchIsSubstringMatch ==
    (result # NULL /\ Val(result).call = "search_requests") =>
        LET rows == Val(result).ret
            text == lower(Val(result).args[1])
        IN /\ \A t \in Shown(db) :
                 (\E i \in DOMAIN rows : rows[i] = t) <=> InSomeField(t, text)
           /\ \A i, j \in DOMAIN rows : i < j => NewestFirst(rows[i], rows[j])


InitBench == \E d \in Handled(Filed(1), {1}) : Started(d)

NextBench ==
    \/ MasterSetMaster
    \/ MasterSelect
    \/ MasterPickStatus
    \/ MasterSendForParts
    \/ MasterSaveStatus
    \/ MasterSaveReport
    \/ MasterAttachFile

SpecBench == InitBench /\ [][NextBench]_vars


(***************************************************************************)
(* The reports: the technician saves reports and statuses, picking a       *)
(* status that completes the ticket or one that does not.                  *)
(***************************************************************************)
ReportStatusPicks == {2, 4}

\* The technician picks 'В работе' or 'Завершена' in status_combo.
ReportsPickStatus ==
    /\ \E i \in ReportStatusPicks : master' = [master EXCEPT !.status_combo = i]
    /\ UNCHANGED <<db, client, operator, dialog, issued, result, calls, objects>>

NextReports ==
    \/ MasterSetMaster
    \/ MasterSelect
    \/ ReportsPickStatus
    \/ MasterSaveStatus
    \/ MasterSaveReport

SpecReports == InitBench /\ [][NextReports]_vars

\* C27: MasterTab.save_status on a ticket whose notify_client is true in the
\* store leaves notify_client true and leaves the stored report text as it
\* is.
C27_StatusChangeKeepsNotification ==
    [][(/\ ~IsNull(master.current_request)
        /\ Val(master.current_request).request_id \in RequestIds(db)
        /\ Stored(db, Val(master.current_request).request_id, "notify_client") = {1}
        /\ MasterDoes(MasterTab_save_status(db, master)))
       => LET id == Val(master.current_request).request_id
          IN /\ Stored(db', id, "notify_client") = {1}
             /\ Stored(db', id, "report") = Stored(db, id, "report")]_vars


\* The handler showed the box that reports success.
Succeeded(text) == dialog' = <<Box("information", text, << >>)>>

\* One more row of the table belongs to the ticket after the step.
OneMoreRow(table, id) ==
    Len(RowsOf(db'[table], id)) = Len(RowsOf(db[table], id)) + 1

\* C30: whenever attach_file, send_for_parts, save_status or save_report of
\* the technician tab reports success for the selected ticket, the comment
\* of the action (and for attach_file the attachment) has been stored for
\* that ticket, in every state of the tab, also when master_id is None.
C30_SuccessMeansStored ==
    [][~IsNull(master.current_request) =>
          LET id == Val(master.current_request).request_id
          IN /\ \A path \in Paths :
                   (/\ MasterDoes(MasterTab_attach_file(db, master, path))
                    /\ Succeeded("Fayl prikreplen"))
                   => OneMoreRow("attachments", id) /\ OneMoreRow("comments", id)
             /\ (/\ MasterDoes(MasterTab_send_for_parts(db, master))
                 /\ Succeeded("Informatsiya o zakaze zapchastey sokhranena"))
                => OneMoreRow("comments", id)
             /\ (/\ MasterDoes(MasterTab_save_status(db, master))
                 /\ Succeeded("Status zayavki obnovlen"))
                => OneMoreRow("comments", id)
             /\ \A report \in Reports :
                   (/\ MasterDoes(MasterTab_save_report(db, master, report))
                    /\ Succeeded("Otchet sokhranen"))
                   => OneMoreRow("comments", id)]_vars


(***************************************************************************)
(* The handover: the operator changes the status of a ticket that the      *)
(* technician has in the list loaded before, and the technician saves a    *)
(* report.                                                                 *)
(***************************************************************************)
NextHandover ==
    \/ OperatorSelect
    \/ OperatorPickStatus
    \/ OperatorSaveChanges
    \/ MasterSetMaster
    \/ MasterSelect
    \/ MasterSaveReport

SpecHandover == InitBench /\ [][NextHandover]_vars

\* C25: MasterTab.save_report with a non-empty report leaves the status that
\* the store held for the ticket immediately before the call, also when the
\* operator changed it after the technician's list was loaded; the report
\* becomes the text saved and notify_client true.
C25_ReportLeavesStatus ==
    [][\A report \in Reports :
          (/\ ~IsNull(master.current_request)
           /\ Val(master.current_request).request_id \in RequestIds(db)
           /\ strip(report) # << >>
           /\ MasterDoes(MasterTab_save_report(db, master, report))
           /\ Succeeded("Otchet sokhranen"))
          => LET id == Val(master.current_request).request_id
             IN /\ ShownTicket(db', id).status = ShownTicket(db, id).status
                /\ Stored(db', id, "report") = {Some(strip(report))}
                /\ Stored(db', id, "notify_client") = {1}]_vars


(***************************************************************************)
(* The operator selects tickets and saves them; the status selector is     *)
(* moved by update_details only.                                           *)
(***************************************************************************)
NextSelector ==
    \/ Launch
    \/ OperatorSelect
    \/ OperatorSaveChanges

SpecSelector == InitOperator /\ [][NextSelector]_vars

\* C26: when the operator saves the selected ticket and has not touched the
\* status selector, the status of the ticket in the store stays what it
\* was, whatever it was ('Новая заявка' included).
C26_UntouchedSelectorKeepsStatus ==
    [][\A name \in MasterNames :
          (/\ ~IsNull(operator.current_request)
           /\ Val(operator.current_request).request_id \in RequestIds(db)
           /\ OperatorDoes(OperatorTab_save_operator_changes(db, operator, << >>, << >>,
                                                             << >>, << >>, name)))
          => LET id == Val(operator.current_request).request_id
             IN ShownTicket(db', id).status = ShownTicket(db, id).status]_vars


\* The tickets of the store with the phone and the trimmed, lowercased
\* description of t.
SameKey(d, t) ==
    {u \in Shown(d) :
        /\ u.client_phone = t.client_phone
        /\ lower(strip(u.problem_description)) = lower(strip(t.problem_description))}

\* C28: a run of delete_duplicates leaves at least one ticket of every
\* (client phone, trimmed lowercased description) key that was present
\* before it, whatever the operator answers, and exactly one ticket per key
\* when the operator confirms every prompt.
C28_CleanupKeepsOnePerKey ==
    [][\A yes \in [1..Len(db.requests) -> BOOLEAN] :
          OperatorDoes(OperatorTab_delete_duplicates(db, operator, yes))
          => \A t \in Shown(db) :
                /\ SameKey(db', t) # {}
                /\ (\A i \in DOMAIN yes : yes[i]) => Cardinality(SameKey(db', t)) = 1]_vars

\* A confirmed duplicate is gone, its original is the only ticket left of
\* its key, and a ticket of another key is still there.
C28_GroupReducedToOne ==
    \E f \in Flagged(dialog) :
        /\ ~RequestExists(db, f[1])
        /\ \E t \in Shown(db) :
              /\ t.request_id = f[2]
              /\ SameKey(db, t) = {t}
              /\ \E u \in Shown(db) : u \notin SameKey(db, t)

=============================================================================
